---- MODULE Spec2Model ----
(***************************************************************************)
(* Lightweight PostgreSQL Client: the query executor (QueryExecutor), the  *)
(* UI entry points that call it (executeQueryCommand, the results panel),  *)
(* the query history and the row-change reconciler                         *)
(* (DataModificationService.applyChanges).                                 *)
(*                                                                         *)
(* JavaScript runs handlers on one event loop: every action below is the   *)
(* synchronous code between two awaits of one handler.                     *)
(***************************************************************************)
EXTENDS Integers, Sequences, FiniteSets, TLC

\* ------------------------------------------------------------------ bounds
MaxCalls == 2          \* UI invocations that may call QueryExecutor.execute
MaxHistoryOps == 103   \* history records made in the history specification
MaxChanges == 2        \* changes in the list given to applyChanges
MaxUiChanges == 1      \* changes in a 'saveChanges' message of the webview
MaxSaves == 2          \* 'saveChanges' messages of the webview

\* ------------------------------------------------------- program constants
maxHistoryItems == 100 \* QueryExecutor.maxHistoryItems
DefaultRowLimit == 100 \* executeQueryCommand: addLimitClause(sql, 100)

Calls == 1..MaxCalls
ConnIds == {"conn1"}
NULL == "null"

\* activeQuery === null, and a results panel that has shown nothing yet
NoActiveQuery == [owner |-> 0, connectionId |-> NULL, cancelled |-> FALSE]
NoContext ==
  [connectionId |-> NULL, originalSql |-> FALSE, tableName |-> FALSE,
   primaryKeyColumns |-> FALSE]

\* ----------------------------------------------------------- error texts
\* A message is a sequence of words; String.includes is a search for a
\* contiguous run of words.
NoError == <<>>
MsgUserRequest == <<"ERROR", "canceling", "statement", "due", "to", "user", "request">>
MsgSqlState == <<"query", "failed", "57014">>
MsgSyntax == <<"syntax", "error", "at", "or", "near">>
MsgConnect == <<"timeout", "exceeded", "when", "trying", "to", "connect">>
MsgNoConnection == <<"No", "active", "database", "connection">>
QueryCancelledByUser == <<"Query", "cancelled", "by", "user">>

StatementErrors == {MsgUserRequest, MsgSqlState, MsgSyntax}

Includes(msg, pat) ==
  \E i \in 1..(Len(msg) - Len(pat) + 1) : SubSeq(msg, i, i + Len(pat) - 1) = pat

\* A classifier that knows the message text only, not the SQLSTATE.
MatchesCancelPhraseOnly(msg) ==
  Includes(msg, <<"canceling", "statement", "due", "to", "user", "request">>)

\* errorMessage.includes('canceling statement due to user request') ||
\* errorMessage.includes('57014')
MatchesCancelSignature(msg) ==
  \/ Includes(msg, <<"canceling", "statement", "due", "to", "user", "request">>)
  \/ Includes(msg, <<"57014">>)

VARIABLES
  connections,    \* ConnectionManager.connections: ids of the connected pools
  activeQuery,    \* QueryExecutor.activeQuery: NoActiveQuery or [owner, connectionId, cancelled]
  queryRunning,   \* the context key 'pgsql.queryRunning'
  queryHistory,   \* QueryExecutor.queryHistory, newest first
  fired,          \* items passed to _onQueryExecuted.fire, in order
  idCounter,      \* generateId: the number of ids handed out
  call,           \* per UI invocation: the state of its execute call
  currentContext, \* ResultsViewProvider.currentContext
  cancelInFlight, \* per backend pid: pg_cancel_backend requests awaited
  cancelReturn,   \* the last value cancelCurrentQuery returned ("none" at first
                  \* and while its request is awaited; "threw" if it threw)
  apply,          \* the applyChanges call in progress
  save,           \* the saveChanges handler in progress
  editor,         \* what a function of text or of a cell value was given, and
                  \* what it returned
  manager         \* the saved connections: the settings list, the secret storage
                  \* and the commands at work on them

vars == <<connections, activeQuery, queryRunning, queryHistory, fired, idCounter,
          call, currentContext, cancelInFlight, cancelReturn, apply, save,
          editor, manager>>

\* ------------------------------------------------------------ the history
\* A QueryHistoryItem; sql is the list of statement texts it carries (one for
\* an execute call, the executed statements of a save).
HistoryItem(id, sql, connectionId, rowCount, error) ==
  [id |-> id, sql |-> sql, connectionId |-> connectionId,
   rowCount |-> rowCount, error |-> error]

\* A history that on overflow drops from the front (shift) instead of the back.
addToHistoryShifts(hist, item) ==
  LET unshifted == <<item>> \o hist
  IN  IF Len(unshifted) > maxHistoryItems
        THEN SubSeq(unshifted, 2, Len(unshifted))
        ELSE unshifted

\* queryHistory.unshift(item); if (length > maxHistoryItems) queryHistory.pop()
addToHistory(hist, item) ==
  LET unshifted == <<item>> \o hist
  IN  IF Len(unshifted) > maxHistoryItems
        THEN SubSeq(unshifted, 1, Len(unshifted) - 1)
        ELSE unshifted

\* The statement text an execute call submits.
SqlOf(c) == <<<<"QUERY", ToString(c)>>>>

\* ------------------------------------------------------- execute: the state
\* One record per UI invocation.  pc: idle, confirm (the modification dialog
\* is open), connect / pid / running (execute awaits pool.connect, the pid
\* query, the statement), settled (execute returned or threw; its caller has
\* not resumed yet), done.
\* client: the local `client` is not null; releases: calls of client.release();
\* outcome: resolved or rejected, thrown: the error of a rejection;
\* error, rowCount, rows: the fields of `result` (rows as their number).
\* For the record of what happened: tried (the try block was entered), caught
\* and stage (the error the catch block got and the await it came from),
\* recorded (the history items the call made), cancelHit (cancelCurrentQuery
\* marked the call's ActiveQuery record).
IdleCall ==
  [pc |-> "idle", via |-> "none", kind |-> "none", conn |-> NULL,
   client |-> FALSE, releases |-> 0, outcome |-> "none", thrown |-> NoError,
   error |-> NoError, rowCount |-> 0, rows |-> 0, tried |-> FALSE,
   caught |-> NoError, stage |-> "none", recorded |-> <<>>, cancelHit |-> FALSE]

\* The handler that made the call has returned; its locals are gone.
DoneCall == [IdleCall EXCEPT !.pc = "done"]

\* Calls inside execute: from its first statement to the end of its finally.
InExecute(c) == call[c].pc \in {"connect", "pid", "running"}

Set(c, changes) == [call EXCEPT ![c] = changes @@ @]

\* execute, lines 28-42: resolve the connection, then await pool.connect().
\* An unknown connection throws before the try block.
BeginExecute(c, id, via, kind) ==
  IF id \in connections
    THEN call' = Set(c, [pc |-> "connect", via |-> via, kind |-> kind, conn |-> id,
                         tried |-> TRUE])
    ELSE call' = Set(c, [pc |-> "settled", via |-> via, kind |-> kind, conn |-> id,
                         outcome |-> "rejected", thrown |-> MsgNoConnection])

\* pool.connect() resolved: the client is checked out; await the pid query.
ConnectResolves(c) ==
  /\ call[c].pc = "connect"
  /\ call' = Set(c, [pc |-> "pid", client |-> TRUE])
  /\ UNCHANGED <<editor, manager>>
  /\ UNCHANGED <<connections, activeQuery, queryRunning, queryHistory, fired,
                 idCounter, currentContext, cancelInFlight, cancelReturn,
                 apply, save>>

\* The pid query resolved: install the ActiveQuery record, set the context
\* key, submit the statement (lines 46-68).
PidResolves(c) ==
  /\ call[c].pc = "pid"
  /\ activeQuery' = [owner |-> c, connectionId |-> call[c].conn, cancelled |-> FALSE]
  /\ queryRunning' = TRUE
  /\ call' = Set(c, [pc |-> "running"])
  /\ UNCHANGED <<editor, manager>>
  /\ UNCHANGED <<connections, queryHistory, fired, idCounter, currentContext,
                 cancelInFlight, cancelReturn,
                 apply, save>>

\* A finally block that clears the record and the context key but keeps the
\* client.
FinallyKeepsClient(c, changes) ==
  /\ call' = Set(c, changes @@ [pc |-> "settled"])
  /\ activeQuery' = NoActiveQuery
  /\ queryRunning' = FALSE

\* The finally block, lines 127-136, after which execute returns or throws
\* (changes: what the try or catch block left in the call's record).
Finally(c, changes) ==
  /\ call' = Set(c, changes @@ [pc |-> "settled",
                                releases |-> IF call[c].client
                                               THEN call[c].releases + 1
                                               ELSE call[c].releases])
  /\ activeQuery' = NoActiveQuery
  /\ queryRunning' = FALSE

\* A history update that fires no event.
RecordSilently(item) ==
  /\ queryHistory' = addToHistory(queryHistory, item)
  /\ fired' = fired
  /\ idCounter' = idCounter + 1

\* this._onQueryExecuted.fire(item) after the history update (addToHistory's
\* last line), and generateId.
Record(item) ==
  /\ queryHistory' = addToHistory(queryHistory, item)
  /\ fired' = Append(fired, item)
  /\ idCounter' = idCounter + 1

\* The statement resolved (lines 68-94): build the result, record it in the
\* history, clean up, return.
StatementResolves(c, rowCount) ==
  /\ call[c].pc = "running"
  /\ LET item == HistoryItem(idCounter + 1, SqlOf(c), call[c].conn, rowCount, NoError)
     IN  /\ Record(item)
         /\ Finally(c, [outcome |-> "resolved", error |-> NoError,
                        rowCount |-> rowCount, rows |-> rowCount,
                        recorded |-> Append(call[c].recorded, item)])
  /\ UNCHANGED <<editor, manager>>
  /\ UNCHANGED <<connections, currentContext, cancelInFlight, cancelReturn,
                 apply, save>>

\* A classification by the cancelled mark alone.
wasCancelledByMark(msg) == activeQuery # NoActiveQuery /\ activeQuery.cancelled

\* this.activeQuery?.cancelled || the message matches a cancellation signature
wasCancelled(msg) ==
  \/ (activeQuery # NoActiveQuery /\ activeQuery.cancelled)
  \/ MatchesCancelSignature(msg)

\* A catch block that rethrows without recording the failure.
CatchThrowsUnrecorded(c, msg) ==
  /\ IF wasCancelled(msg)
       THEN Finally(c, [outcome |-> "resolved", error |-> QueryCancelledByUser,
                        rowCount |-> 0, rows |-> 0, caught |-> msg,
                        stage |-> call[c].pc])
       ELSE Finally(c, [outcome |-> "rejected", thrown |-> msg, error |-> msg,
                        rowCount |-> 0, rows |-> 0, caught |-> msg,
                        stage |-> call[c].pc])
  /\ UNCHANGED <<editor, manager>>
  /\ UNCHANGED <<connections, queryHistory, fired, idCounter, currentContext,
                 cancelInFlight, cancelReturn, apply, save>>

\* An await inside the try block rejected with msg: the catch block, lines
\* 95-126, then the finally block.
Catch(c, msg) ==
  /\ IF wasCancelled(msg)
       THEN /\ Finally(c, [outcome |-> "resolved", error |-> QueryCancelledByUser,
                           rowCount |-> 0, rows |-> 0, caught |-> msg,
                           stage |-> call[c].pc])
            /\ UNCHANGED <<queryHistory, fired, idCounter>>
       ELSE LET item == HistoryItem(idCounter + 1, SqlOf(c), call[c].conn, 0, msg)
            IN  /\ Record(item)
                /\ Finally(c, [outcome |-> "rejected", thrown |-> msg,
                               error |-> msg, rowCount |-> 0, rows |-> 0,
                               caught |-> msg, stage |-> call[c].pc,
                               recorded |-> Append(call[c].recorded, item)])
  /\ UNCHANGED <<editor, manager>>
  /\ UNCHANGED <<connections, currentContext, cancelInFlight, cancelReturn,
                 apply, save>>

ConnectRejects(c) == call[c].pc = "connect" /\ Catch(c, MsgConnect)

PidRejects(c) == call[c].pc = "pid" /\ Catch(c, MsgConnect)

StatementRejects(c, msg) == call[c].pc = "running" /\ Catch(c, msg)

\* A cancelCurrentQuery that does not look at the cancelled mark.
cancelCurrentQueryAgain ==
  /\ IF activeQuery = NoActiveQuery
       THEN /\ cancelReturn' = "false"
            /\ UNCHANGED <<activeQuery, call, cancelInFlight>>
       ELSE /\ activeQuery' = [activeQuery EXCEPT !.cancelled = TRUE]
            /\ call' = Set(activeQuery.owner, [cancelHit |-> TRUE])
            /\ IF activeQuery.connectionId \in connections
                 THEN /\ cancelInFlight' =
                           [cancelInFlight EXCEPT ![activeQuery.owner] = @ + 1]
                      /\ cancelReturn' = "none"
                 ELSE /\ cancelReturn' = "false"
                      /\ UNCHANGED cancelInFlight
  /\ UNCHANGED <<editor, manager>>
  /\ UNCHANGED <<connections, queryRunning, queryHistory, fired, idCounter,
                 currentContext, apply, save>>

\* ------------------------------------------------------ cancelCurrentQuery
\* The synchronous part, lines 144-160: nothing to cancel, already cancelled,
\* or mark the record and submit pg_cancel_backend(pid) on the pool.  A failed
\* lookup or send is caught and logged, and false is returned.
cancelCurrentQuery ==
  /\ IF activeQuery = NoActiveQuery \/ activeQuery.cancelled
       THEN /\ cancelReturn' = "false"
            /\ UNCHANGED <<activeQuery, call, cancelInFlight>>
       ELSE /\ activeQuery' = [activeQuery EXCEPT !.cancelled = TRUE]
            /\ call' = Set(activeQuery.owner, [cancelHit |-> TRUE])
            /\ IF activeQuery.connectionId \in connections
                 THEN /\ cancelInFlight' =
                           [cancelInFlight EXCEPT ![activeQuery.owner] = @ + 1]
                      /\ cancelReturn' = "none"
                 ELSE /\ cancelReturn' = "false"
                      /\ UNCHANGED cancelInFlight
  /\ UNCHANGED <<editor, manager>>
  /\ UNCHANGED <<connections, queryRunning, queryHistory, fired, idCounter,
                 currentContext, apply, save>>

\* The cancel request was answered: return true.
CancelRequestResolves(p) ==
  /\ cancelInFlight[p] > 0
  /\ cancelInFlight' = [cancelInFlight EXCEPT ![p] = @ - 1]
  /\ cancelReturn' = "true"
  /\ UNCHANGED <<editor, manager>>
  /\ UNCHANGED <<connections, activeQuery, queryRunning, queryHistory, fired,
                 idCounter, call, currentContext, apply, save>>

\* The cancel request failed: the catch block logs it; return false.
CancelRequestRejects(p) ==
  /\ cancelInFlight[p] > 0
  /\ cancelInFlight' = [cancelInFlight EXCEPT ![p] = @ - 1]
  /\ cancelReturn' = "false"
  /\ UNCHANGED <<editor, manager>>
  /\ UNCHANGED <<connections, activeQuery, queryRunning, queryHistory, fired,
                 idCounter, call, currentContext, apply, save>>

\* ------------------------------------------------------ the UI entry points
\* A statement the command rewrites with LIMIT (a SELECT or WITH without a
\* row limit), or one it asks to confirm (a modification query).
Kinds == {"read_unlimited", "write"}
RowCounts == {0, DefaultRowLimit}

\* UI invocations take the call records in order.
NextFree(c) == call[c].pc = "idle" /\ \A d \in Calls : d < c => call[d].pc # "idle"

\* ResultsViewProvider.show: replace the context; the table name comes from a
\* FROM clause of the sql when there is one, the primary key from an id-like
\* result column when there is one.
show(context, sqlDefined, hasColumns, fromClause, idColumn) ==
  [context EXCEPT
     !.tableName = @ \/ (sqlDefined /\ fromClause),
     !.primaryKeyColumns = @ \/ (hasColumns /\ idColumn)]

\* executeQueryCommand calling execute without asking.
executeQueryCommandUnasked(c, id, kind) ==
  /\ NextFree(c)
  /\ id \in connections
  /\ BeginExecute(c, id, "command", kind)
  /\ UNCHANGED <<editor, manager>>
  /\ UNCHANGED <<connections, activeQuery, queryRunning, queryHistory, fired,
                 idCounter, currentContext, cancelInFlight, cancelReturn,
                 apply, save>>

\* executeQueryCommand up to its first await: the document's connection, the
\* statement, and for a modification query the confirmation dialog.
executeQueryCommand(c, id, kind) ==
  /\ NextFree(c)
  /\ id \in connections
  /\ IF kind = "write"
       THEN call' = Set(c, [pc |-> "confirm", via |-> "command", kind |-> kind,
                            conn |-> id])
       ELSE BeginExecute(c, id, "command", kind)
  /\ UNCHANGED <<editor, manager>>
  /\ UNCHANGED <<connections, activeQuery, queryRunning, queryHistory, fired,
                 idCounter, currentContext, cancelInFlight, cancelReturn,
                 apply, save>>

\* The dialog returned 'Execute': call execute.
ConfirmExecute(c) ==
  /\ call[c].pc = "confirm"
  /\ BeginExecute(c, call[c].conn, "command", call[c].kind)
  /\ UNCHANGED <<editor, manager>>
  /\ UNCHANGED <<connections, activeQuery, queryRunning, queryHistory, fired,
                 idCounter, currentContext, cancelInFlight, cancelReturn,
                 apply, save>>

\* The dialog was dismissed: the command returns.
ConfirmDismissed(c) ==
  /\ call[c].pc = "confirm"
  /\ call' = [call EXCEPT ![c] = DoneCall]
  /\ UNCHANGED <<editor, manager>>
  /\ UNCHANGED <<connections, activeQuery, queryRunning, queryHistory, fired,
                 idCounter, currentContext, cancelInFlight, cancelReturn,
                 apply, save>>

\* The results panel's 'viewAll' message: executeFullQuery, which needs a
\* context with the original sql and a connection id.
executeFullQuery(c) ==
  /\ NextFree(c)
  /\ currentContext # NoContext
  /\ currentContext.originalSql
  /\ BeginExecute(c, currentContext.connectionId, "fullQuery", "original")
  /\ UNCHANGED <<editor, manager>>
  /\ UNCHANGED <<connections, activeQuery, queryRunning, queryHistory, fired,
                 idCounter, currentContext, cancelInFlight, cancelReturn,
                 apply, save>>

\* The caller of execute resumes: with a result it shows it in the results
\* panel (show ends in updateView, which loads the webview anew: the changes
\* it had collected are gone), with an exception it shows an error message.
CallerResumes(c, fromClause, idColumn) ==
  /\ call[c].pc = "settled"
  /\ call' = [call EXCEPT ![c] = DoneCall]
  /\ IF call[c].outcome = "resolved"
       THEN LET hasColumns == call[c].error = NoError
                hasMoreData == /\ call[c].kind = "read_unlimited"
                               /\ call[c].rowCount >= DefaultRowLimit
            IN  IF call[c].via = "command"
                  THEN currentContext' =
                         show([connectionId |-> call[c].conn,
                               originalSql |-> hasMoreData,
                               tableName |-> FALSE, primaryKeyColumns |-> FALSE],
                              TRUE, hasColumns, fromClause, idColumn)
                  ELSE currentContext' =
                         show([currentContext EXCEPT !.originalSql = FALSE],
                              currentContext.originalSql, hasColumns, fromClause,
                              idColumn)
       ELSE UNCHANGED currentContext
  /\ IF call[c].outcome = "resolved"
       THEN save' = [save EXCEPT !.dirty = <<>>, !.consumed = {}]
       ELSE UNCHANGED save
  /\ UNCHANGED <<editor, manager>>
  /\ UNCHANGED <<connections, activeQuery, queryRunning, queryHistory, fired,
                 idCounter, cancelInFlight, cancelReturn, apply>>

\* -------------------------------------------------------- the other handlers
\* pgsql.clearHistory
clearHistory ==
  /\ queryHistory' = <<>>
  /\ UNCHANGED <<editor, manager>>
  /\ UNCHANGED <<connections, activeQuery, queryRunning, fired, idCounter, call,
                 currentContext, cancelInFlight, cancelReturn,
                 apply, save>>

\* ConnectionManager.connect registered the connection: connections.set
connect(id) ==
  /\ id \notin connections
  /\ connections' = connections \cup {id}
  /\ UNCHANGED <<editor, manager>>
  /\ UNCHANGED <<activeQuery, queryRunning, queryHistory, fired, idCounter, call,
                 currentContext, cancelInFlight, cancelReturn,
                 apply, save>>

\* ConnectionManager.disconnect removed the connection: connections.delete
disconnect(id) ==
  /\ id \in connections
  /\ connections' = connections \ {id}
  /\ UNCHANGED <<editor, manager>>
  /\ UNCHANGED <<activeQuery, queryRunning, queryHistory, fired, idCounter, call,
                 currentContext, cancelInFlight, cancelReturn,
                 apply, save>>

\* ------------------------------------- DataModificationService.applyChanges
ChangeTypes == {"delete", "update", "insert"}
RowIndexes == {-2, -1, 0, 1}    \* webview rows count from 0, new rows from -1 down
RowCountsDml == {0, 1}          \* queryResult.rowCount ?? 0

\* A RowChange.  wellFormed: the data the statement builder dereferences
\* (originalData, newData, modifiedColumns, all optional in the interface) is
\* there; without it the builder throws a TypeError.
Changes == [type : ChangeTypes, rowIndex : RowIndexes, wellFormed : BOOLEAN]

MsgNoPrimaryKey ==
  <<"Cannot", "modify", "data", "without", "primary", "key", "columns", "defined">>
MsgTypeError == <<"Cannot", "read", "properties", "of", "undefined">>
MsgConstraint == <<"violates", "constraint">>

\* const order = { delete: 0, update: 1, insert: 2 }
order(type) == CASE type = "delete" -> 0 [] type = "update" -> 1 [] type = "insert" -> 2

\* The comparator of the sort, lines 62-72.
compareChanges(a, b) ==
  IF order(a.type) # order(b.type) THEN order(a.type) - order(b.type)
  ELSE IF a.type = "delete" THEN b.rowIndex - a.rowIndex
  ELSE a.rowIndex - b.rowIndex

\* Array.prototype.sort is stable: an element goes behind every element that
\* does not compare greater than it.
RECURSIVE InsertSorted(_, _)
InsertSorted(sorted, x) ==
  IF sorted = <<>> THEN <<x>>
  ELSE IF compareChanges(Head(sorted), x) <= 0
         THEN <<Head(sorted)>> \o InsertSorted(Tail(sorted), x)
         ELSE <<x>> \o sorted

RECURSIVE SortChangesInto(_, _)
SortChangesInto(sorted, rest) ==
  IF rest = <<>> THEN sorted
  ELSE SortChangesInto(InsertSorted(sorted, Head(rest)), Tail(rest))

\* const sortedChanges = [...changes].sort(...)
sortedChanges(changes) == SortChangesInto(<<>>, changes)

\* formatSqlWithParams(sql, params): the display text of a change's statement
StatementText(change) ==
  <<CASE change.type = "delete" -> "DELETE"
      [] change.type = "update" -> "UPDATE"
      [] change.type = "insert" -> "INSERT", ToString(change.rowIndex)>>

\* `${change.type} row ${change.rowIndex}: ${message}`
ErrorText(change, message) ==
  <<change.type, "row", ToString(change.rowIndex), ":">> \o message

\* The call: pc is idle, loop (between two changes), query (awaiting
\* pool.query), returned; sorted and i are the loop's list and position, the
\* next four fields the ModificationResult.  For the record of what happened:
\* batch (the call got past its precondition checks), input (the list it was
\* given), attempted (the changes its loop took up), submitted (the changes
\* whose statement it handed to the pool), failed (the changes that landed in
\* the catch block), reported (the row counts of the statements that resolved).
IdleApply ==
  [pc |-> "idle", sorted |-> <<>>, i |-> 0, success |-> TRUE, affectedRows |-> 0,
   errors |-> <<>>, executedSql |-> <<>>, batch |-> FALSE, input |-> <<>>,
   attempted |-> <<>>, submitted |-> <<>>, failed |-> <<>>, reported |-> <<>>]

\* An applyChanges that does not look at the primary key columns.
applyChangesBeginUnchecked(changes, hasPrimaryKey, connectionId) ==
  IF connectionId \notin connections
    THEN apply' = [IdleApply EXCEPT !.pc = "returned", !.input = changes,
                                    !.success = FALSE,
                                    !.errors = <<MsgNoConnection>>]
  ELSE apply' = [IdleApply EXCEPT !.pc = "loop", !.input = changes, !.batch = TRUE,
                                  !.sorted = sortedChanges(changes), !.i = 1]

\* applyChanges up to the loop, lines 32-72: the two precondition checks,
\* the empty result, the sort.  connectionId is always given by the callers.
applyChangesBegin(changes, hasPrimaryKey, connectionId) ==
  IF connectionId \notin connections
    THEN apply' = [IdleApply EXCEPT !.pc = "returned", !.input = changes,
                                    !.success = FALSE,
                                    !.errors = <<MsgNoConnection>>]
  ELSE IF ~hasPrimaryKey
    THEN apply' = [IdleApply EXCEPT !.pc = "returned", !.input = changes,
                                    !.success = FALSE,
                                    !.errors = <<MsgNoPrimaryKey>>]
  ELSE apply' = [IdleApply EXCEPT !.pc = "loop", !.input = changes, !.batch = TRUE,
                                  !.sorted = sortedChanges(changes), !.i = 1]

\* A loop body that submits the statement without pushing its display text.
ApplyNextChangeUnlogged ==
  /\ apply.pc = "loop"
  /\ apply.i <= Len(apply.sorted)
  /\ LET change == apply.sorted[apply.i]
     IN  IF change.wellFormed
           THEN apply' = [apply EXCEPT
                            !.pc = "query",
                            !.attempted = Append(@, change),
                            !.submitted = Append(@, change)]
           ELSE apply' = [apply EXCEPT
                            !.i = @ + 1,
                            !.attempted = Append(@, change),
                            !.success = FALSE,
                            !.failed = Append(@, change),
                            !.errors = Append(@, ErrorText(change, MsgTypeError))]
  /\ UNCHANGED <<editor, manager>>
  /\ UNCHANGED <<connections, activeQuery, queryRunning, queryHistory, fired,
                 idCounter, call, currentContext, cancelInFlight, cancelReturn,
                 save>>

\* A loop body that submits the statement and goes on without awaiting it.
ApplyNextChangeUnawaited ==
  /\ apply.pc = "loop"
  /\ apply.i <= Len(apply.sorted)
  /\ LET change == apply.sorted[apply.i]
     IN  IF change.wellFormed
           THEN apply' = [apply EXCEPT
                            !.i = @ + 1,
                            !.attempted = Append(@, change),
                            !.executedSql = Append(@, StatementText(change)),
                            !.submitted = Append(@, change)]
           ELSE apply' = [apply EXCEPT
                            !.i = @ + 1,
                            !.attempted = Append(@, change),
                            !.success = FALSE,
                            !.failed = Append(@, change),
                            !.errors = Append(@, ErrorText(change, MsgTypeError))]
  /\ UNCHANGED <<editor, manager>>
  /\ UNCHANGED <<connections, activeQuery, queryRunning, queryHistory, fired,
                 idCounter, call, currentContext, cancelInFlight, cancelReturn,
                 save>>

\* One pass of the loop up to its await, lines 74-110: build the statement,
\* push its display text, submit it; a builder that throws lands in the catch.
ApplyNextChange ==
  /\ apply.pc = "loop"
  /\ apply.i <= Len(apply.sorted)
  /\ LET change == apply.sorted[apply.i]
     IN  IF change.wellFormed
           THEN apply' = [apply EXCEPT
                            !.pc = "query",
                            !.attempted = Append(@, change),
                            !.executedSql = Append(@, StatementText(change)),
                            !.submitted = Append(@, change)]
           ELSE apply' = [apply EXCEPT
                            !.i = @ + 1,
                            !.attempted = Append(@, change),
                            !.success = FALSE,
                            !.failed = Append(@, change),
                            !.errors = Append(@, ErrorText(change, MsgTypeError))]
  /\ UNCHANGED <<editor, manager>>
  /\ UNCHANGED <<connections, activeQuery, queryRunning, queryHistory, fired,
                 idCounter, call, currentContext, cancelInFlight, cancelReturn,
                 save>>

\* A loop that keeps the row count of the last statement only (= for +=).
ApplyQueryResolvesOverwrites(rowCount) ==
  /\ apply.pc = "query"
  /\ apply' = [apply EXCEPT !.pc = "loop", !.i = @ + 1,
                            !.affectedRows = rowCount,
                            !.reported = Append(@, rowCount)]
  /\ UNCHANGED <<editor, manager>>
  /\ UNCHANGED <<connections, activeQuery, queryRunning, queryHistory, fired,
                 idCounter, call, currentContext, cancelInFlight, cancelReturn,
                 save>>

\* pool.query resolved: result.affectedRows += queryResult.rowCount ?? 0
ApplyQueryResolves(rowCount) ==
  /\ apply.pc = "query"
  /\ apply' = [apply EXCEPT !.pc = "loop", !.i = @ + 1,
                            !.affectedRows = @ + rowCount,
                            !.reported = Append(@, rowCount)]
  /\ UNCHANGED <<editor, manager>>
  /\ UNCHANGED <<connections, activeQuery, queryRunning, queryHistory, fired,
                 idCounter, call, currentContext, cancelInFlight, cancelReturn,
                 save>>

\* A loop without its try/catch: the rejection ends the call.
ApplyQueryRejectsAborts(message) ==
  /\ apply.pc = "query"
  /\ LET change == apply.sorted[apply.i]
     IN  apply' = [apply EXCEPT
                     !.pc = "returned", !.success = FALSE,
                     !.failed = Append(@, change),
                     !.errors = Append(@, ErrorText(change, message))]
  /\ UNCHANGED <<editor, manager>>
  /\ UNCHANGED <<connections, activeQuery, queryRunning, queryHistory, fired,
                 idCounter, call, currentContext, cancelInFlight, cancelReturn,
                 save>>

\* pool.query rejected: the catch block, lines 112-116.
ApplyQueryRejects(message) ==
  /\ apply.pc = "query"
  /\ LET change == apply.sorted[apply.i]
     IN  apply' = [apply EXCEPT
                     !.pc = "loop", !.i = @ + 1, !.success = FALSE,
                     !.failed = Append(@, change),
                     !.errors = Append(@, ErrorText(change, message))]
  /\ UNCHANGED <<editor, manager>>
  /\ UNCHANGED <<connections, activeQuery, queryRunning, queryHistory, fired,
                 idCounter, call, currentContext, cancelInFlight, cancelReturn,
                 save>>

\* The loop is through: return result.
ApplyReturns ==
  /\ apply.pc = "loop"
  /\ apply.i > Len(apply.sorted)
  /\ apply' = [apply EXCEPT !.pc = "returned"]
  /\ UNCHANGED <<editor, manager>>
  /\ UNCHANGED <<connections, activeQuery, queryRunning, queryHistory, fired,
                 idCounter, call, currentContext, cancelInFlight, cancelReturn,
                 save>>

\* A caller of the service hands applyChanges a list of changes.
applyChanges(changes, hasPrimaryKey, connectionId) ==
  /\ apply.pc = "idle"
  /\ save.pc = "idle"
  /\ applyChangesBegin(changes, hasPrimaryKey, connectionId)
  /\ UNCHANGED <<editor, manager>>
  /\ UNCHANGED <<connections, activeQuery, queryRunning, queryHistory, fired,
                 idCounter, call, currentContext, cancelInFlight, cancelReturn,
                 save>>

\* ------------------------------------------ ResultsViewProvider.saveChanges
\* The handler: pc is idle, prompt (promptForTableInfo is awaited), applying
\* (applyChanges is awaited), done.  changes: the list the message carried;
\* recorded: the history items the handler made.  The webview: dirty is the
\* list of changes it holds (modifiedCells, deletedRows, newRows), saves the
\* number of 'saveChanges' messages it has posted.  consumed: the changes the
\* webview holds whose statement an earlier, returned save attempt executed.
IdleSave ==
  [pc |-> "idle", changes |-> <<>>, recorded |-> <<>>, dirty |-> <<>>,
   consumed |-> {}, saves |-> 0]

\* result.errors.join('; ')
RECURSIVE JoinErrors(_)
JoinErrors(errors) ==
  IF errors = <<>> THEN <<>>
  ELSE IF Len(errors) = 1 THEN Head(errors)
  ELSE Head(errors) \o <<";">> \o JoinErrors(Tail(errors))

\* recordInHistory(sql, connectionId, duration, rowCount, error)
recordInHistory(sql, connectionId, rowCount, error) ==
  Record(HistoryItem(idCounter + 1, sql, connectionId, rowCount, error))

\* saveChanges from the primary-key check to the await of applyChanges,
\* lines 117-138 (started: the handler's record up to here).
SaveProceeds(started, context) ==
  IF ~context.primaryKeyColumns
    THEN /\ save' = [started EXCEPT !.pc = "done"]
         /\ UNCHANGED apply
    ELSE /\ save' = [started EXCEPT !.pc = "applying"]
         /\ applyChangesBegin(started.changes, TRUE, context.connectionId)

\* The webview's 'saveChanges' message, lines 104-116: the webview posts the
\* changes it holds (946-996), those of an earlier message that no
\* 'changesSaved' answered included.  Without a shown result the handler only
\* reports 'Cannot save: missing context'.
saveChanges(changes) ==
  /\ save.pc \in {"idle", "done"}
  /\ apply.pc \in {"idle", "returned"}
  /\ save.saves < MaxSaves
  /\ save.dirty = <<>> \/ changes = save.dirty
  /\ currentContext # NoContext
  /\ LET started == [save EXCEPT !.changes = changes, !.recorded = <<>>,
                                 !.dirty = changes, !.saves = @ + 1]
     IN  IF ~currentContext.tableName
           THEN /\ save' = [started EXCEPT !.pc = "prompt"]
                /\ UNCHANGED apply
           ELSE SaveProceeds(started, currentContext)
  /\ UNCHANGED <<editor, manager>>
  /\ UNCHANGED <<connections, activeQuery, queryRunning, queryHistory, fired,
                 idCounter, call, currentContext, cancelInFlight, cancelReturn>>

\* promptForTableInfo returned (lines 210-254): with a table name and a
\* primary key it extends the context and loads the webview anew (updateView);
\* saveChanges goes on from line 112.
SavePromptAnswered(tableName, primaryKey) ==
  /\ save.pc = "prompt"
  /\ LET context == IF tableName /\ primaryKey
                      THEN [currentContext EXCEPT !.tableName = TRUE,
                                                  !.primaryKeyColumns = TRUE]
                      ELSE currentContext
         started == IF tableName /\ primaryKey
                      THEN [save EXCEPT !.dirty = <<>>, !.consumed = {}]
                      ELSE save
     IN  /\ currentContext' = context
         /\ IF ~context.tableName
              THEN /\ save' = [started EXCEPT !.pc = "done"]
                   /\ UNCHANGED apply
              ELSE SaveProceeds(started, context)
  /\ UNCHANGED <<editor, manager>>
  /\ UNCHANGED <<connections, activeQuery, queryRunning, queryHistory, fired,
                 idCounter, call, cancelInFlight, cancelReturn>>

\* What the webview holds after the save attempt: on success the handler posts
\* 'changesSaved' and the webview clears its changes (1074-1112); otherwise
\* it keeps them.
AfterAttempt(handler, result) ==
  IF result.success
    THEN [handler EXCEPT !.dirty = <<>>, !.consumed = {}]
    ELSE [handler EXCEPT
            !.consumed = {handler.dirty[i] : i \in 1..Len(handler.dirty)}
                           \cap {result.submitted[i] : i \in 1..Len(result.submitted)}]

\* applyChanges returned: record the executed statements in the history,
\* lines 139-161, and report the outcome.
SaveResumes ==
  /\ save.pc = "applying"
  /\ apply.pc = "returned"
  /\ IF currentContext.connectionId # NULL /\ Len(apply.executedSql) > 0
       THEN /\ recordInHistory(apply.executedSql, currentContext.connectionId,
                               apply.affectedRows,
                               IF apply.success THEN NoError
                                                ELSE JoinErrors(apply.errors))
            /\ save' = [AfterAttempt(save, apply) EXCEPT
                          !.pc = "done",
                          !.recorded = Append(@, Head(queryHistory'))]
       ELSE /\ save' = [AfterAttempt(save, apply) EXCEPT !.pc = "done"]
            /\ UNCHANGED <<queryHistory, fired, idCounter>>
  /\ UNCHANGED <<editor, manager>>
  /\ UNCHANGED <<connections, activeQuery, queryRunning, call, currentContext,
                 cancelInFlight, cancelReturn, apply>>

\* --------------------------- QueryExecutor.execute without a dedicated client
\* The executor of src/services/queryExecutor.ts runs the statement on the
\* pool: one await, then the history record.
executeOnPoolResolves(id, rowCount) ==
  /\ id \in connections
  /\ Record(HistoryItem(idCounter + 1, <<<<"QUERY", "pool">>>>, id, rowCount, NoError))
  /\ UNCHANGED <<editor, manager>>
  /\ UNCHANGED <<connections, activeQuery, queryRunning, call, currentContext,
                 cancelInFlight, cancelReturn, apply, save>>

executeOnPoolRejects(id, msg) ==
  /\ id \in connections
  /\ Record(HistoryItem(idCounter + 1, <<<<"QUERY", "pool">>>>, id, 0, msg))
  /\ UNCHANGED <<editor, manager>>
  /\ UNCHANGED <<connections, activeQuery, queryRunning, call, currentContext,
                 cancelInFlight, cancelReturn, apply, save>>

\* recordInHistory called from outside the executor.
RecordsInHistory(sql, id, rowCount, error) ==
  /\ recordInHistory(sql, id, rowCount, error)
  /\ UNCHANGED <<editor, manager>>
  /\ UNCHANGED <<connections, activeQuery, queryRunning, call, currentContext,
                 cancelInFlight, cancelReturn, apply, save>>

\* ------------------------------------------------ SQL text (part_006)
\* A text is a sequence of characters, each a string of length one; offsets
\* count from 0 as in the editor, indexes of a sequence from 1.
LowerLetters == <<"a", "b", "c", "d", "e", "f", "g", "h", "i", "j", "k", "l", "m", "n", "o", "p", "q", "r", "s", "t", "u", "v", "w", "x", "y", "z">>
UpperLetters == <<"A", "B", "C", "D", "E", "F", "G", "H", "I", "J", "K", "L", "M", "N", "O", "P", "Q", "R", "S", "T", "U", "V", "W", "X", "Y", "Z">>
DigitChars == <<"0", "1", "2", "3", "4", "5", "6", "7", "8", "9">>
Whitespace == {" ", "\n"}                                 \* /\s/
Digits == {DigitChars[i] : i \in 1..10}                   \* /\d/
WordChars == {LowerLetters[i] : i \in 1..26} \cup {UpperLetters[i] : i \in 1..26}
               \cup Digits \cup {"_"}                     \* /\w/

\* String.prototype.toUpperCase, one character and a whole text.
toUpperCaseChar(ch) ==
  IF \E i \in 1..26 : LowerLetters[i] = ch
  THEN UpperLetters[CHOOSE i \in 1..26 : LowerLetters[i] = ch]
  ELSE ch

toUpperCase(text) == [i \in 1..Len(text) |-> toUpperCaseChar(text[i])]

\* String.prototype.trim.
RECURSIVE trimStart(_)
trimStart(text) ==
  IF text # <<>> /\ Head(text) \in Whitespace THEN trimStart(Tail(text)) ELSE text

RECURSIVE trimEnd(_)
trimEnd(text) ==
  IF text # <<>> /\ text[Len(text)] \in Whitespace
  THEN trimEnd(SubSeq(text, 1, Len(text) - 1))
  ELSE text

trim(text) == trimEnd(trimStart(text))

startsWith(text, prefix) ==
  Len(text) >= Len(prefix) /\ SubSeq(text, 1, Len(prefix)) = prefix

endsWith(text, suffix) ==
  Len(text) >= Len(suffix)
  /\ SubSeq(text, Len(text) - Len(suffix) + 1, Len(text)) = suffix

\* sql.replace(/\s+/g, ' '): every run of whitespace becomes one space.
collapseWhitespace(text) ==
  LET startsRun(i) == text[i] \notin Whitespace \/ i = 1
                        \/ text[i - 1] \notin Whitespace
      kept == SelectSeq([i \in 1..Len(text) |-> i], startsRun)
  IN  [k \in 1..Len(kept) |->
         IF text[kept[k]] \in Whitespace THEN " " ELSE text[kept[k]]]

\* sql.replace(/\s+/g, ' ').trim().toUpperCase()
normalizedSql(sql) == toUpperCase(trim(collapseWhitespace(sql)))

\* The character after text[i], or a value no character equals (undefined).
NextChar(text, i) == IF i < Len(text) THEN text[i + 1] ELSE "undefined"

\* --- splitSqlStatements
\* The loop variables of splitSqlStatements; starts keeps, for each statement
\* pushed, the offset in the text at which it begins, and boundaries the
\* indexes of the semicolons at which the loop ended a statement.
SplitStart ==
  [current |-> <<>>, inString |-> FALSE, stringChar |-> "",
   inLineComment |-> FALSE, inBlockComment |-> FALSE,
   statements |-> <<>>, starts |-> <<>>, boundaries |-> {}]

\* statements.push(current) without the test of current.trim().
PushStatementUntested(s, boundary) ==
  [s EXCEPT !.statements = Append(@, s.current),
            !.starts = Append(@, boundary - 1 - Len(s.current)),
            !.current = <<>>]

\* statements.push(current) when current.trim() is not empty; boundary is the
\* index of the semicolon reached, or one past the text at its end.
PushStatement(s, boundary) ==
  IF trim(s.current) # <<>>
  THEN [s EXCEPT !.statements = Append(@, s.current),
                 !.starts = Append(@, boundary - 1 - Len(s.current)),
                 !.current = <<>>]
  ELSE [s EXCEPT !.current = <<>>]

\* One pass of the for loop of splitSqlStatements at index i: the index of
\* the next pass and the loop variables after this one.
splitStep(text, i, s) ==
  LET char == text[i]
      nextChar == NextChar(text, i)
      add == [s EXCEPT !.current = Append(@, char)]
      addBoth == [s EXCEPT !.current = @ \o <<char, nextChar>>]
  IN  IF ~s.inString /\ ~s.inBlockComment /\ char = "-" /\ nextChar = "-"
      THEN [i |-> i + 1, s |-> [add EXCEPT !.inLineComment = TRUE]]
      ELSE IF s.inLineComment
      THEN [i |-> i + 1, s |-> [add EXCEPT !.inLineComment = (char # "\n")]]
      ELSE IF ~s.inString /\ ~s.inLineComment /\ char = "/" /\ nextChar = "*"
      THEN [i |-> i + 1, s |-> [add EXCEPT !.inBlockComment = TRUE]]
      ELSE IF s.inBlockComment
      THEN IF char = "*" /\ nextChar = "/"
           THEN [i |-> i + 2, s |-> [addBoth EXCEPT !.inBlockComment = FALSE]]
           ELSE [i |-> i + 1, s |-> add]
      ELSE IF ~s.inString /\ char \in {"'", "\""}
      THEN [i |-> i + 1,
            s |-> [add EXCEPT !.inString = TRUE, !.stringChar = char]]
      ELSE IF s.inString
      THEN IF char = s.stringChar
           THEN IF nextChar = s.stringChar
                THEN [i |-> i + 2, s |-> addBoth]
                ELSE [i |-> i + 1, s |-> [add EXCEPT !.inString = FALSE]]
           ELSE [i |-> i + 1, s |-> add]
      ELSE IF char = ";"
      THEN [i |-> i + 1,
            s |-> [PushStatement(s, i) EXCEPT !.boundaries = @ \cup {i}]]
      ELSE [i |-> i + 1, s |-> add]

\* The passes of the for loop at the indexes from..to, in order, from the
\* loop variables in pass; an index that i has stepped over has no pass.
\* (The range is halved so that the evaluation nests only a few levels.)
RECURSIVE splitPasses(_, _, _, _)
splitPasses(text, from, to, pass) ==
  IF from = to
  THEN IF pass.i = from THEN splitStep(text, from, pass.s) ELSE pass
  ELSE LET middle == (from + to) \div 2
           first == splitPasses(text, from, middle, pass)
       IN  IF first.i > to THEN first
           ELSE splitPasses(text, middle + 1, to, first)

\* The for loop of splitSqlStatements from index i on.
splitLoop(text, i, s) ==
  IF i > Len(text) THEN s
  ELSE splitPasses(text, i, Len(text), [i |-> i, s |-> s]).s

\* The loop, then the push of the last statement.
splitScan(text) == PushStatement(splitLoop(text, 1, SplitStart), Len(text) + 1)

splitSqlStatements(text) == splitScan(text).statements

\* --- findSqlAtCursor
\* while (currentOffset < text.length && /\s/.test(text[currentOffset]))
RECURSIVE skipWhitespace(_, _)
skipWhitespace(text, currentOffset) ==
  IF currentOffset < Len(text) /\ text[currentOffset + 1] \in Whitespace
  THEN skipWhitespace(text, currentOffset + 1)
  ELSE currentOffset

\* The loop with a span that leaves out the offset at the statement's end.
RECURSIVE findLoopBeforeEnd(_, _, _, _, _)
findLoopBeforeEnd(text, offset, statements, k, currentOffset) ==
  IF k > Len(statements) THEN trim(text)
  ELSE
    LET statementStart == currentOffset
        statementEnd == currentOffset + Len(statements[k])
        afterSemicolon ==
          IF statementEnd < Len(text) /\ text[statementEnd + 1] = ";"
          THEN statementEnd + 1
          ELSE statementEnd
    IN  IF offset >= statementStart /\ offset < statementEnd
        THEN trim(statements[k])
        ELSE findLoopBeforeEnd(text, offset, statements, k + 1,
                               skipWhitespace(text, afterSemicolon))

\* The for loop of findSqlAtCursor from the k-th statement on.
RECURSIVE findLoop(_, _, _, _, _)
findLoop(text, offset, statements, k, currentOffset) ==
  IF k > Len(statements) THEN trim(text)
  ELSE
    LET statementStart == currentOffset
        statementEnd == currentOffset + Len(statements[k])
        afterSemicolon ==
          IF statementEnd < Len(text) /\ text[statementEnd + 1] = ";"
          THEN statementEnd + 1
          ELSE statementEnd
    IN  IF offset >= statementStart /\ offset <= statementEnd
        THEN trim(statements[k])
        ELSE findLoop(text, offset, statements, k + 1,
                      skipWhitespace(text, afterSemicolon))

findSqlAtCursor(text, offset) ==
  findLoop(text, offset, splitSqlStatements(text), 1, 0)

\* --- stripSqlComments
StripStart ==
  [result |-> <<>>, inString |-> FALSE, stringChar |-> "",
   inLineComment |-> FALSE, inBlockComment |-> FALSE,
   kept |-> {}, normal |-> {}]

\* One pass of the for loop of stripSqlComments at index i: the index of the
\* next pass and the loop variables after this one; kept holds the indexes
\* of the characters appended to result and normal those appended outside
\* strings and comments.
stripStep(sql, i, s) ==
  LET char == sql[i]
      nextChar == NextChar(sql, i)
      add == [s EXCEPT !.result = Append(@, char), !.kept = @ \cup {i}]
  IN  IF ~s.inString /\ ~s.inBlockComment /\ char = "-" /\ nextChar = "-"
      THEN [i |-> i + 2, s |-> [s EXCEPT !.inLineComment = TRUE]]
      ELSE IF s.inLineComment
      THEN IF char = "\n"
           THEN [i |-> i + 1, s |-> [add EXCEPT !.inLineComment = FALSE]]
           ELSE [i |-> i + 1, s |-> s]
      ELSE IF ~s.inString /\ ~s.inLineComment /\ char = "/" /\ nextChar = "*"
      THEN [i |-> i + 2, s |-> [s EXCEPT !.inBlockComment = TRUE]]
      ELSE IF s.inBlockComment
      THEN IF char = "*" /\ nextChar = "/"
           THEN [i |-> i + 2, s |-> [s EXCEPT !.inBlockComment = FALSE]]
           ELSE [i |-> i + 1, s |-> s]
      ELSE IF ~s.inString /\ char \in {"'", "\""}
      THEN [i |-> i + 1,
            s |-> [add EXCEPT !.inString = TRUE, !.stringChar = char]]
      ELSE IF s.inString
      THEN IF char = s.stringChar
           THEN IF nextChar = s.stringChar
                THEN [i |-> i + 2,
                      s |-> [s EXCEPT !.result = @ \o <<char, nextChar>>,
                                      !.kept = @ \cup {i, i + 1}]]
                ELSE [i |-> i + 1, s |-> [add EXCEPT !.inString = FALSE]]
           ELSE [i |-> i + 1, s |-> add]
      ELSE [i |-> i + 1, s |-> [add EXCEPT !.normal = @ \cup {i}]]

\* The passes of the for loop at the indexes from..to, in order, from the
\* loop variables in pass; an index that i has stepped over has no pass.
RECURSIVE stripPasses(_, _, _, _)
stripPasses(sql, from, to, pass) ==
  IF from = to
  THEN IF pass.i = from THEN stripStep(sql, from, pass.s) ELSE pass
  ELSE LET middle == (from + to) \div 2
           first == stripPasses(sql, from, middle, pass)
       IN  IF first.i > to THEN first
           ELSE stripPasses(sql, middle + 1, to, first)

\* The for loop of stripSqlComments from index i on.
stripLoop(sql, i, s) ==
  IF i > Len(sql) THEN s
  ELSE stripPasses(sql, i, Len(sql), [i |-> i, s |-> s]).s

stripSqlComments(sql) == stripLoop(sql, 1, StripStart).result

\* --- isModificationQuery, isSelectQuery
modificationKeywords ==
  << <<"I", "N", "S", "E", "R", "T">>,
     <<"U", "P", "D", "A", "T", "E">>,
     <<"D", "E", "L", "E", "T", "E">>,
     <<"T", "R", "U", "N", "C", "A", "T", "E">>,
     <<"D", "R", "O", "P">>,
     <<"A", "L", "T", "E", "R">>,
     <<"C", "R", "E", "A", "T", "E">>,
     <<"G", "R", "A", "N", "T">>,
     <<"R", "E", "V", "O", "K", "E">>,
     <<"V", "A", "C", "U", "U", "M">>,
     <<"R", "E", "I", "N", "D", "E", "X">>,
     <<"C", "L", "U", "S", "T", "E", "R">>,
     <<"R", "E", "F", "R", "E", "S", "H", " ", "M", "A", "T", "E", "R", "I", "A", "L", "I", "Z", "E", "D", " ", "V", "I", "E", "W">>,
     <<"C", "O", "P", "Y">> >>

isModificationQuery(sql) ==
  \E k \in 1..Len(modificationKeywords) :
    \/ startsWith(normalizedSql(sql), modificationKeywords[k] \o <<" ">>)
    \/ normalizedSql(sql) = modificationKeywords[k]

isSelectQuery(sql) ==
  \/ startsWith(normalizedSql(sql), <<"S", "E", "L", "E", "C", "T", " ">>)
  \/ startsWith(normalizedSql(sql), <<"W", "I", "T", "H", " ">>)

\* --- hasLimitClause
\* The words of the three regular expressions.
KwLimit == <<"L", "I", "M", "I", "T">>
KwOffset == <<"O", "F", "F", "S", "E", "T">>
KwFetch == <<"F", "E", "T", "C", "H">>
KwFirst == <<"F", "I", "R", "S", "T">>
KwNext == <<"N", "E", "X", "T">>
KwRow == <<"R", "O", "W">>
KwOnly == <<"O", "N", "L", "Y">>

\* The text reads word at index i, letters compared without case (flag i).
MatchesAt(text, i, word) ==
  /\ i + Len(word) - 1 <= Len(text)
  /\ \A j \in 1..Len(word) : toUpperCaseChar(text[i + j - 1]) = word[j]

\* The index after the longest run of characters of the class from i on.
RECURSIVE SkipClass(_, _, _)
SkipClass(text, i, class) ==
  IF i <= Len(text) /\ text[i] \in class THEN SkipClass(text, i + 1, class) ELSE i

\* \b in front of a letter: no word character before it.
WordBoundaryBefore(text, i) == i = 1 \/ text[i - 1] \notin WordChars

AtEnd(text, i) == i = Len(text) + 1

\* /\bLIMIT\s+\d+\s*(OFFSET\s+\d+)?\s*$/i matched from index i. Whitespace,
\* digits and letters are disjoint classes, so the longest runs decide.
LimitOffsetAt(text, i) ==
  /\ WordBoundaryBefore(text, i)
  /\ MatchesAt(text, i, KwLimit)
  /\ LET a == i + Len(KwLimit)
         b == SkipClass(text, a, Whitespace)
         c == SkipClass(text, b, Digits)
         d == SkipClass(text, c, Whitespace)
         e == d + Len(KwOffset)
         f == SkipClass(text, e, Whitespace)
         g == SkipClass(text, f, Digits)
         h == SkipClass(text, g, Whitespace)
     IN  /\ b > a
         /\ c > b
         /\ \/ AtEnd(text, d)
            \/ MatchesAt(text, d, KwOffset) /\ f > e /\ g > f /\ AtEnd(text, h)

\* /\bLIMIT\s+\d+\s*$/i matched from index i.
LimitAt(text, i) ==
  /\ WordBoundaryBefore(text, i)
  /\ MatchesAt(text, i, KwLimit)
  /\ LET a == i + Len(KwLimit)
         b == SkipClass(text, a, Whitespace)
         c == SkipClass(text, b, Digits)
     IN  b > a /\ c > b /\ AtEnd(text, SkipClass(text, c, Whitespace))

\* /\bFETCH\s+(FIRST|NEXT)\s+\d+\s+ROW(S)?\s+ONLY\s*$/i matched from index i.
FetchAt(text, i) ==
  /\ WordBoundaryBefore(text, i)
  /\ MatchesAt(text, i, KwFetch)
  /\ LET a == i + Len(KwFetch)
         b == SkipClass(text, a, Whitespace)
         c == IF MatchesAt(text, b, KwFirst) THEN b + Len(KwFirst) ELSE b + Len(KwNext)
         d == SkipClass(text, c, Whitespace)
         e == SkipClass(text, d, Digits)
         f == SkipClass(text, e, Whitespace)
         g == f + Len(KwRow)
         h == IF MatchesAt(text, g, <<"S">>) THEN g + 1 ELSE g
         k == SkipClass(text, h, Whitespace)
         l == k + Len(KwOnly)
     IN  /\ b > a
         /\ MatchesAt(text, b, KwFirst) \/ MatchesAt(text, b, KwNext)
         /\ d > c
         /\ e > d
         /\ f > e
         /\ MatchesAt(text, f, KwRow)
         /\ k > h
         /\ MatchesAt(text, k, KwOnly)
         /\ AtEnd(text, SkipClass(text, l, Whitespace))

hasLimitClause(sql) ==
  \/ \E i \in 1..Len(trim(sql)) : LimitOffsetAt(trim(sql), i)
  \/ \E i \in 1..Len(trim(sql)) : LimitAt(trim(sql), i)
  \/ \E i \in 1..Len(trim(sql)) : FetchAt(trim(sql), i)

\* --- addLimitClause
\* `${limit}`: the decimal digits of a number.
RECURSIVE decimal(_)
decimal(n) ==
  IF n < 10 THEN <<DigitChars[n + 1]>>
  ELSE decimal(n \div 10) \o <<DigitChars[(n % 10) + 1]>>

addLimitClause(sql, limit) ==
  LET hadSemicolon == endsWith(trim(sql), <<";">>)
      trimmedSql == IF hadSemicolon
                    THEN trim(SubSeq(trim(sql), 1, Len(trim(sql)) - 1))
                    ELSE trim(sql)
  IN  trimmedSql \o <<" ">> \o KwLimit \o <<" ">> \o decimal(limit)
        \o (IF hadSemicolon THEN <<";">> ELSE <<>>)

\* --- what executeQueryCommand makes of the text it is given
\* The statement taken to be the whole text, however many statements it has.
statementOfWholeText(text) == trim(stripSqlComments(text))

\* The statement of the command: comments stripped, trimmed, the first
\* statement alone when there are several (lines 46-61).
statementOf(text) ==
  LET sql == trim(stripSqlComments(text))
  IN  IF Len(splitSqlStatements(sql)) > 1
      THEN trim(splitSqlStatements(sql)[1])
      ELSE sql

\* The text handed to queryExecutor.execute (lines 71-77).
submittedSql(sql) ==
  IF isSelectQuery(sql) /\ ~hasLimitClause(sql)
  THEN addLimitClause(sql, DefaultRowLimit)
  ELSE sql

\* --- the texts the operations are given
MaxFragments == 4      \* pieces of a text built from SplitFragments

\* Pieces of SQL that meet the splitter's cases.
SplitFragments ==
  { <<"a">>,
    <<";">>,
    <<"'">>,
    <<"\"">>,
    <<"-", "-">>,
    <<"/", "*">>,
    <<"*", "/">>,
    <<"/">>,
    <<"\n">>,
    <<" ">> }

RECURSIVE TextsOf(_, _)
TextsOf(fragments, n) ==
  IF n = 0 THEN {<<>>}
  ELSE LET shorter == TextsOf(fragments, n - 1)
       IN  shorter \cup {t \o f : t \in shorter, f \in fragments}

SplitTexts == TextsOf(SplitFragments, MaxFragments)

\* Statements as a user types them: how they begin, how they end, and what
\* follows the end.
Heads ==
  { <<"S", "E", "L", "E", "C", "T", " ", "x">>,
    <<"s", "e", "l", "e", "c", "t", " ", "x">>,
    <<"S", "E", "L", "E", "C", "T", "*">>,
    <<"w", "i", "t", "h", "\n", "c">>,
    <<"U", "P", "D", "A", "T", "E", " ", "t">>,
    <<"u", "p", "d", "a", "t", "e", " ", "t">>,
    <<"S", "E", "L", "E", "C", "T", "E", "D">>,
    <<"I", "N", "S", "E", "R", "T">>,
    <<"V", "A", "C", "U", "U", "M">>,
    <<"E", "X", "P", "L", "A", "I", "N", " ", "x">>,
    <<"R", "E", "F", "R", "E", "S", "H", " ", "M", "A", "T", "E", "R", "I", "A", "L", "I", "Z", "E", "D", " ", "V", "I", "E", "W", " ", "v">>,
    <<"R", "E", "F", "R", "E", "S", "H", " ", "x">>,
    <<" ", "W", "I", "T", "H", " ", "c">> }

Clauses ==
  { <<>>,
    <<" ", "L", "I", "M", "I", "T", " ", "1">>,
    <<" ", "l", "i", "m", "i", "t", " ", "1", "0">>,
    <<" ", "L", "I", "M", "I", "T", " ", "1", " ", "O", "F", "F", "S", "E", "T", " ", "0">>,
    <<" ", "F", "E", "T", "C", "H", " ", "F", "I", "R", "S", "T", " ", "1", " ", "R", "O", "W", "S", " ", "O", "N", "L", "Y">>,
    <<" ", "f", "e", "t", "c", "h", " ", "n", "e", "x", "t", " ", "1", " ", "r", "o", "w", " ", "o", "n", "l", "y">>,
    <<" ", "L", "I", "M", "I", "T">>,
    <<" ", "L", "I", "M", "I", "T", " ", "x">>,
    <<" ", "x", "L", "I", "M", "I", "T", " ", "1">>,
    <<" ", "O", "F", "F", "S", "E", "T", " ", "1">>,
    <<" ", "L", "I", "M", "I", "T", " ", "1", " ", "x">> }

Trailers ==
  { <<>>,
    <<";">>,
    <<" ">>,
    <<" ", ";">> }

StatementTexts == {h \o c \o t : h \in Heads, c \in Clauses, t \in Trailers}

Documents == SplitTexts \cup StatementTexts

\* No SQL document is being worked on.
NoDocument == [pc |-> "none", text |-> <<>>, offset |-> 0, out |-> <<>>]

OpenDocument(text) == [pc |-> "open", text |-> text, offset |-> 0, out |-> <<>>]

\* splitSqlStatements is applied to the document.
Split ==
  /\ editor.pc = "open"
  /\ editor' = [editor EXCEPT !.pc = "split",
                              !.out = splitSqlStatements(editor.text)]
  /\ UNCHANGED <<connections, activeQuery, queryRunning, queryHistory, fired,
                 idCounter, call, currentContext, cancelInFlight, cancelReturn,
                 apply, save, manager>>

\* findSqlAtCursor is applied to the document and a cursor offset in it.
ResolveAtCursor(offset) ==
  /\ editor.pc = "open"
  /\ editor' = [editor EXCEPT !.pc = "resolved", !.offset = offset,
                              !.out = findSqlAtCursor(editor.text, offset)]
  /\ UNCHANGED <<connections, activeQuery, queryRunning, queryHistory, fired,
                 idCounter, call, currentContext, cancelInFlight, cancelReturn,
                 apply, save, manager>>

\* hasLimitClause is applied to the text.
CheckLimit ==
  /\ editor.pc = "open"
  /\ editor' = [editor EXCEPT !.pc = "limit-checked",
                              !.out = hasLimitClause(editor.text)]
  /\ UNCHANGED <<connections, activeQuery, queryRunning, queryHistory, fired,
                 idCounter, call, currentContext, cancelInFlight, cancelReturn,
                 apply, save, manager>>

\* The limits given to addLimitClause; the command gives 100.
Limits == {1, 100}

\* addLimitClause is applied to the text.
AddLimit(limit) ==
  /\ editor.pc = "open"
  /\ editor' = [editor EXCEPT !.pc = "limited",
                              !.out = addLimitClause(editor.text, limit)]
  /\ UNCHANGED <<connections, activeQuery, queryRunning, queryHistory, fired,
                 idCounter, call, currentContext, cancelInFlight, cancelReturn,
                 apply, save, manager>>

\* isSelectQuery and isModificationQuery are applied to the text.
Classify ==
  /\ editor.pc = "open"
  /\ editor' = [editor EXCEPT !.pc = "classified",
                              !.out = [read |-> isSelectQuery(editor.text),
                                       write |-> isModificationQuery(editor.text)]]
  /\ UNCHANGED <<connections, activeQuery, queryRunning, queryHistory, fired,
                 idCounter, call, currentContext, cancelInFlight, cancelReturn,
                 apply, save, manager>>

\* executeQueryCommand with the text selected, up to the call of execute:
\* 'No SQL to execute' when nothing is left, else the statement, whether the
\* dialog is asked for, and the text that goes to the executor.
PrepareSql ==
  /\ editor.pc = "open"
  /\ editor' = [editor EXCEPT
       !.pc = IF statementOf(editor.text) = <<>> THEN "nothing" ELSE "prepared",
       !.out = [statement |-> statementOf(editor.text),
                confirm |-> isModificationQuery(statementOf(editor.text)),
                submitted |-> submittedSql(statementOf(editor.text))]]
  /\ UNCHANGED <<connections, activeQuery, queryRunning, queryHistory, fired,
                 idCounter, call, currentContext, cancelInFlight, cancelReturn,
                 apply, save, manager>>

\* ------------------------------- convertValue (dataModificationService.ts)
\* JavaScript values, each with its type.
Null == [type |-> "null", v |-> <<>>]
Undefined == [type |-> "undefined", v |-> <<>>]
StringValue(text) == [type |-> "string", v |-> text]
BooleanValue(b) == [type |-> "boolean", v |-> b]
NumberValue(n) == [type |-> "number", v |-> n]
ObjectValue == [type |-> "object", v |-> <<>>]

\* String.prototype.toLowerCase
toLowerCase(text) ==
  [i \in 1..Len(text) |->
     IF \E k \in 1..26 : UpperLetters[k] = text[i]
     THEN LowerLetters[CHOOSE k \in 1..26 : UpperLetters[k] = text[i]]
     ELSE text[i]]

\* The texts a cell of the grid is given.
CellTexts ==
  { <<>>,
    <<"t", "r", "u", "e">>,
    <<"T", "R", "U", "E">>,
    <<"T", "r", "u", "e">>,
    <<"f", "a", "l", "s", "e">>,
    <<"F", "A", "L", "S", "E">>,
    <<"n", "o", "t", "-", "a", "-", "b", "o", "o", "l">>,
    <<"1">>,
    <<" ", "1">>,
    <<" ">>,
    <<"a", "b", "c">>,
    <<"n", "u", "l", "l">>,
    <<"{", "}">> }

\* What a cell's edit may carry, and the columns it may belong to (with
\* "undefined" when columns.find finds none).
CellValues ==
  {Null, Undefined, BooleanValue(TRUE), NumberValue(1), ObjectValue}
    \cup {StringValue(text) : text \in CellTexts}

DataTypes ==
  {"undefined", "boolean", "text", "integer", "numeric", "json", "jsonb"}

numericTypes ==
  {"integer", "bigint", "smallint", "real", "double precision", "numeric", "decimal"}

\* JSON.parse on the cell texts: the value, or Undefined when it throws.
JSONparse(text) ==
  CASE text = <<"t", "r", "u", "e">> -> BooleanValue(TRUE)
    [] text = <<"f", "a", "l", "s", "e">> -> BooleanValue(FALSE)
    [] text = <<"n", "u", "l", "l">> -> Null
    [] text = <<"1">> -> NumberValue(1)
    [] text = <<" ", "1">> -> NumberValue(1)
    [] text = <<"{", "}">> -> ObjectValue
    [] OTHER -> Undefined

\* Number(value) on the cell texts: the number, or Undefined for NaN.
Number(text) ==
  CASE text = <<"1">> -> NumberValue(1)
    [] text = <<" ", "1">> -> NumberValue(1)
    [] text = <<" ">> -> NumberValue(0)
    [] OTHER -> Undefined

\* convertValue comparing the text with 'true' and 'false' as it is written.
convertValueCaseSensitive(value, dataType) ==
  IF value \in {Null, Undefined, StringValue(<<>>)} THEN Null
  ELSE IF value.type # "string" THEN value
  ELSE IF dataType \in {"json", "jsonb"}
       THEN IF JSONparse(value.v) # Undefined THEN JSONparse(value.v) ELSE value
  ELSE IF dataType = "boolean" /\ value.v = <<"t", "r", "u", "e">>
       THEN BooleanValue(TRUE)
  ELSE IF dataType = "boolean" /\ value.v = <<"f", "a", "l", "s", "e">>
       THEN BooleanValue(FALSE)
  ELSE IF dataType \in numericTypes /\ Number(value.v) # Undefined
       THEN Number(value.v)
  ELSE value

\* DataModificationService.convertValue; dataType is the column's type, or
\* "undefined" when there is no column.
convertValue(value, dataType) ==
  IF value \in {Null, Undefined, StringValue(<<>>)} THEN Null
  ELSE IF value.type # "string" THEN value
  ELSE IF dataType \in {"json", "jsonb"}
       THEN IF JSONparse(value.v) # Undefined THEN JSONparse(value.v) ELSE value
  ELSE IF dataType = "boolean" /\ toLowerCase(value.v) = <<"t", "r", "u", "e">>
       THEN BooleanValue(TRUE)
  ELSE IF dataType = "boolean" /\ toLowerCase(value.v) = <<"f", "a", "l", "s", "e">>
       THEN BooleanValue(FALSE)
  ELSE IF dataType \in numericTypes /\ Number(value.v) # Undefined
       THEN Number(value.v)
  ELSE value

\* A statement builder converts the value of an edited cell.
Convert ==
  /\ editor.pc = "edited"
  /\ editor' = [editor EXCEPT !.pc = "converted",
                              !.out = convertValue(editor.value, editor.dataType)]
  /\ UNCHANGED <<connections, activeQuery, queryRunning, queryHistory, fired,
                 idCounter, call, currentContext, cancelInFlight, cancelReturn,
                 apply, save, manager>>

\* ------------------------------------- saved connections (connectCommand.ts)
MaxTasks == 2          \* connection commands at work at the same time

Tasks == 1..MaxTasks
ConfigIds == {"conn1", "conn2"}

\* The password the user has for a connection; "" is the form's empty field.
PasswordOf(id) == <<"password", "of", id>>
NoPassword == <<>>                 \* undefined
EmptyPassword == <<"">>            \* ''

\* A ConnectionConfig: its id and its password; the other fields play no part.
ConnectionConfig(id, password) == [id |-> id, password |-> password]
NoConfig == [id |-> NULL, password |-> NoPassword]

\* What the forms and the connection string give: the user's password for the
\* connection or none.
FormConfigs ==
  {ConnectionConfig(id, password) :
     id \in ConfigIds, password \in {EmptyPassword}} \cup
  {ConnectionConfig(id, PasswordOf(id)) : id \in ConfigIds}

IdleTask == [pc |-> "idle", config |-> NoConfig]

MaxOps == 3            \* connect and disconnect calls suspended at the same time
MaxPools == 3          \* pools created in one run

Ops == 1..MaxOps

\* No call of connect or disconnect in this place.
IdleOp == [pc |-> "idle", id |-> NULL, pool |-> 0]

\* Nothing saved, no command at work.
IdleManager ==
  [settings |-> [id \in ConfigIds |-> NoConfig],
   secrets |-> [id \in ConfigIds |-> NoPassword],
   tasks |-> [t \in Tasks |-> IdleTask],
   pools |-> <<>>,
   registry |-> [id \in ConfigIds |-> 0],
   ops |-> [o \in Ops |-> IdleOp]]

\* `if (config.password)`, `if (!password)`: undefined and '' are falsy.
HasPassword(password) == password \notin {NoPassword, EmptyPassword}

\* SecretStorageService.storePassword
storePassword(secrets, connectionId, password) ==
  [secrets EXCEPT ![connectionId] = password]

\* SecretStorageService.deletePassword
deletePassword(secrets, connectionId) ==
  [secrets EXCEPT ![connectionId] = NoPassword]

\* saveConnectionConfig writing the config as it was given.
saveConnectionConfigAsGiven(settings, connection) ==
  [settings EXCEPT ![connection.id] = connection]

\* ConnectionManager.saveConnectionConfig: the entry with the config's id is
\* replaced or added, its password undefined.
saveConnectionConfig(settings, connection) ==
  [settings EXCEPT ![connection.id] = [connection EXCEPT !.password = NoPassword]]

ManagerFrame ==
  UNCHANGED <<connections, activeQuery, queryRunning, queryHistory, fired,
              idCounter, call, currentContext, cancelInFlight, cancelReturn,
              apply, save, editor>>

\* pgsql.connect, 'New Connection' or 'Quick Connect' with 'Yes': a config
\* with a password is stored, the password first.
NewConnection(t, config) ==
  /\ manager.tasks[t].pc = "idle"
  /\ HasPassword(config.password)
  /\ manager' = [manager EXCEPT
       !.secrets = storePassword(@, config.id, config.password),
       !.tasks[t] = [pc |-> "save", config |-> config]]
  /\ ManagerFrame

\* pgsql.editConnection: the form returned the updated config of a saved
\* connection; a password in it is stored first.
editConnection(t, updatedConfig) ==
  /\ manager.tasks[t].pc = "idle"
  /\ manager.settings[updatedConfig.id] # NoConfig
  /\ manager' = [manager EXCEPT
       !.secrets = IF HasPassword(updatedConfig.password)
                   THEN storePassword(@, updatedConfig.id, updatedConfig.password)
                   ELSE @,
       !.tasks[t] = [pc |-> "save", config |-> updatedConfig]]
  /\ ManagerFrame

\* storePassword resolved: saveConnectionConfig, and the command goes on to
\* connect with the config it holds.
SaveConfig(t) ==
  /\ manager.tasks[t].pc = "save"
  /\ manager' = [manager EXCEPT
       !.settings = saveConnectionConfig(@, manager.tasks[t].config),
       !.tasks[t] = IdleTask]
  /\ ManagerFrame

\* A saved connection is picked (pgsql.connect) or connectById is called:
\* without a stored password the user is asked for one (undefined when the
\* input box is dismissed), and it is stored when the user answers 'Yes'.
connectById(t, id, password, savePassword) ==
  /\ manager.tasks[t].pc = "idle"
  /\ manager.settings[id] # NoConfig
  /\ manager' = [manager EXCEPT
       !.secrets = IF ~HasPassword(@[id]) /\ password # NoPassword /\ savePassword
                   THEN storePassword(@, id, password)
                   ELSE @]
  /\ ManagerFrame

\* deleteConnectionConfig: the entry leaves the settings list.
deleteConnectionConfig(t, id) ==
  /\ manager.tasks[t].pc = "idle"
  /\ manager' = [manager EXCEPT
       !.settings = [@ EXCEPT ![id] = NoConfig],
       !.tasks[t] = [pc |-> "forget", config |-> ConnectionConfig(id, NoPassword)]]
  /\ ManagerFrame

\* config.update resolved: the password leaves the secret storage.
ForgetPassword(t) ==
  /\ manager.tasks[t].pc = "forget"
  /\ manager' = [manager EXCEPT
       !.secrets = deletePassword(@, manager.tasks[t].config.id),
       !.tasks[t] = IdleTask]
  /\ ManagerFrame

\* ------------------------------------- ConnectionManager: pools of connections
\* manager.pools holds every Pool created, in order of creation, with the id
\* of its config and whether its end() has resolved; manager.registry is the
\* connections map (the number of the pool registered under an id, 0 for
\* none); manager.ops holds the calls of connect and disconnect suspended at
\* an await.  connections stays the set of keys of the map.
PoolFrame ==
  UNCHANGED <<activeQuery, queryRunning, queryHistory, fired, idCounter, call,
              currentContext, cancelInFlight, cancelReturn, apply, save, editor>>

IdleOps == {o \in Ops : manager.ops[o].pc = "idle"}

\* The place a new call takes.
FreeOp == CHOOSE o \in IdleOps : \A p \in IdleOps : o <= p

\* this.connections.has(id)
Registered == {id \in ConfigIds : manager.registry[id] # 0}

\* connect, lines 106-128, to `await pool.connect()`: a registered connection
\* is returned as it is (its isConnected is true as long as it is in the map:
\* disconnect clears the flag in the step that deletes it); otherwise a Pool
\* is created and tested.
connectBegin(id) ==
  /\ IdleOps # {}
  /\ IF id \in Registered
       THEN UNCHANGED manager
       ELSE /\ Len(manager.pools) < MaxPools
            /\ manager' = [manager EXCEPT
                 !.pools = Append(@, [id |-> id, ended |-> FALSE]),
                 !.ops[FreeOp] = [pc |-> "testing", id |-> id,
                                  pool |-> Len(manager.pools) + 1]]
  /\ UNCHANGED connections
  /\ PoolFrame

\* pool.connect() resolved, lines 128-144: the client is released and the
\* connection registered under its id, in place of what is there.
TestResolves(o) ==
  /\ manager.ops[o].pc = "testing"
  /\ manager' = [manager EXCEPT
       !.registry[manager.ops[o].id] = manager.ops[o].pool,
       !.ops[o] = IdleOp]
  /\ connections' = connections \cup {manager.ops[o].id}
  /\ PoolFrame

\* pool.connect() rejected: connect throws, the pool is left as it is.
TestRejects(o) ==
  /\ manager.ops[o].pc = "testing"
  /\ manager' = [manager EXCEPT !.ops[o] = IdleOp]
  /\ UNCHANGED connections
  /\ PoolFrame

\* disconnect, lines 147-150, to `await connection.pool.end()`.
disconnectBegin(id) ==
  /\ IdleOps # {}
  /\ IF id \in Registered
       THEN manager' = [manager EXCEPT
              !.ops[FreeOp] = [pc |-> "ending", id |-> id,
                               pool |-> manager.registry[id]]]
       ELSE UNCHANGED manager
  /\ UNCHANGED connections
  /\ PoolFrame

\* pool.end() resolved, lines 150-154: the pool has ended, and what is
\* registered under the id is deleted.
EndResolves(o) ==
  /\ manager.ops[o].pc = "ending"
  /\ manager' = [manager EXCEPT
       !.pools[manager.ops[o].pool].ended = TRUE,
       !.registry[manager.ops[o].id] = 0,
       !.ops[o] = IdleOp]
  /\ connections' = connections \ {manager.ops[o].id}
  /\ PoolFrame

\* pool.end() rejected: disconnect throws, nothing is deleted.
EndRejects(o) ==
  /\ manager.ops[o].pc = "ending"
  /\ manager' = [manager EXCEPT !.ops[o] = IdleOp]
  /\ UNCHANGED connections
  /\ PoolFrame

\* disconnectAll, lines 158-163: disconnect is called for every key of the
\* map, each call running to its await.
disconnectAll ==
  /\ Cardinality(IdleOps) >= Cardinality(Registered)
  /\ LET place == CHOOSE f \in [Registered -> IdleOps] :
                     \A a, b \in Registered : f[a] = f[b] => a = b
         started == {place[id] : id \in Registered}
     IN  manager' = [manager EXCEPT
           !.ops = [o \in Ops |->
                      IF o \in started
                      THEN LET id == CHOOSE i \in Registered : place[i] = o
                           IN  [pc |-> "ending", id |-> id,
                                pool |-> manager.registry[id]]
                      ELSE @[o]]]
  /\ UNCHANGED connections
  /\ PoolFrame

\* ----------------------------------------------------------- specification
InitWith(connected) ==
  /\ connections = connected
  /\ activeQuery = NoActiveQuery
  /\ queryRunning = FALSE
  /\ queryHistory = <<>>
  /\ fired = <<>>
  /\ idCounter = 0
  /\ call = [c \in Calls |-> IdleCall]
  /\ currentContext = NoContext
  /\ cancelInFlight = [c \in Calls |-> 0]
  /\ cancelReturn = "none"
  /\ apply = IdleApply
  /\ save = IdleSave
  /\ editor = NoDocument
  /\ manager = IdleManager

\* After activation: nothing is connected, nothing has run.
Init == InitWith({})

\* The modification dialog of a command is answered.
ConfirmStep(c) ==
  \/ ConfirmExecute(c)
  \/ ConfirmDismissed(c)

\* What an execute call can do next.
CallStep(c) ==
  \/ ConnectResolves(c)
  \/ ConnectRejects(c)
  \/ PidResolves(c)
  \/ PidRejects(c)
  \/ \E n \in RowCounts : StatementResolves(c, n)
  \/ \E msg \in StatementErrors : StatementRejects(c, msg)

CancelStep ==
  \/ cancelCurrentQuery
  \/ \E p \in Calls : CancelRequestResolves(p)
  \/ \E p \in Calls : CancelRequestRejects(p)

ConnectionStep ==
  \/ \E id \in ConnIds : connect(id)
  \/ \E id \in ConnIds : disconnect(id)

\* The executor under concurrent UI invocations.
Next ==
  \/ ConnectionStep
  \/ \E c \in Calls, id \in ConnIds : executeQueryCommand(c, id, "read_unlimited")
  \/ \E c \in Calls : executeFullQuery(c)
  \/ \E c \in Calls : CallStep(c)
  \/ \E c \in Calls : CallerResumes(c, FALSE, FALSE)
  \/ CancelStep

Spec == Init /\ [][Next]_vars

\* The driver answers every statement it was given: the await of
\* client.query(sql) resolves or rejects.
Fairness ==
  \A c \in Calls :
    WF_vars((\E n \in RowCounts : StatementResolves(c, n))
              \/ (\E msg \in StatementErrors : StatementRejects(c, msg)))

FairSpec == Spec /\ Fairness

\* The reconciler by itself: one applyChanges call on any list of changes.
ChangeLists(alphabet, n) == UNION {[1..k -> alphabet] : k \in 0..n}

NextApply ==
  \/ ConnectionStep
  \/ /\ apply.pc = "idle"
     /\ \E changes \in ChangeLists(Changes, MaxChanges), hasPrimaryKey \in BOOLEAN,
           id \in ConnIds : applyChanges(changes, hasPrimaryKey, id)
  \/ ApplyNextChange
  \/ \E n \in RowCountsDml : ApplyQueryResolves(n)
  \/ ApplyQueryRejects(MsgConstraint)
  \/ ApplyReturns

SpecApply == Init /\ [][NextApply]_vars

\* Saving from the results panel: a command and then the panel's full query,
\* one after the other, and a save of the changes the webview collected on
\* the result the panel shows (one 'saveChanges' message), or a call of the
\* service by another caller.
WebviewChanges ==
  {ch \in Changes : ch.wellFormed /\ (ch.type = "insert" <=> ch.rowIndex < 0)}

NoCallInFlight == \A c \in Calls : call[c].pc \in {"idle", "done"}

NextSave ==
  \/ ConnectionStep
  \/ \E id \in ConnIds, kind \in Kinds : executeQueryCommand(1, id, kind)
  \/ ConfirmStep(1)
  \/ NoCallInFlight /\ executeFullQuery(2)
  \/ \E c \in Calls : CallStep(c)
  \/ \E c \in Calls, fromClause \in BOOLEAN, idColumn \in BOOLEAN :
       CallerResumes(c, fromClause, idColumn)
  \/ /\ save.saves = 0 /\ apply.pc = "idle"
     /\ \E changes \in ChangeLists(WebviewChanges, MaxUiChanges) \ {<<>>} :
          saveChanges(changes)
  \/ \E tableName \in BOOLEAN, primaryKey \in BOOLEAN :
       SavePromptAnswered(tableName, primaryKey)
  \/ /\ apply.pc = "idle"
     /\ \E changes \in ChangeLists(WebviewChanges, MaxUiChanges),
           hasPrimaryKey \in BOOLEAN, id \in ConnIds :
          applyChanges(changes, hasPrimaryKey, id)
  \/ ApplyNextChange
  \/ \E n \in RowCountsDml : ApplyQueryResolves(n)
  \/ ApplyQueryRejects(MsgConstraint)
  \/ ApplyReturns
  \/ SaveResumes

SpecSave == Init /\ [][NextSave]_vars

\* Saving again: the panel shows the result of a command on conn1, with a table
\* name and a primary key detected, and the webview posts 'saveChanges'
\* messages one after the other.
ShownItem == HistoryItem(1, SqlOf(1), "conn1", 0, NoError)

InitShown ==
  /\ connections = ConnIds
  /\ activeQuery = NoActiveQuery
  /\ queryRunning = FALSE
  /\ queryHistory = <<ShownItem>>
  /\ fired = <<ShownItem>>
  /\ idCounter = 1
  /\ call = [c \in Calls |-> IF c = 1 THEN DoneCall ELSE IdleCall]
  /\ currentContext = [connectionId |-> "conn1", originalSql |-> FALSE,
                       tableName |-> TRUE, primaryKeyColumns |-> TRUE]
  /\ cancelInFlight = [c \in Calls |-> 0]
  /\ cancelReturn = "none"
  /\ apply = IdleApply
  /\ save = IdleSave
  /\ editor = NoDocument
  /\ manager = IdleManager

NextResave ==
  \/ ConnectionStep
  \/ /\ save.pc \in {"idle", "done"}
     /\ \E changes \in ChangeLists(WebviewChanges, MaxUiChanges) \ {<<>>} :
          saveChanges(changes)
  \/ ApplyNextChange
  \/ \E n \in RowCountsDml : ApplyQueryResolves(n)
  \/ ApplyQueryRejects(MsgConstraint)
  \/ ApplyReturns
  \/ SaveResumes

SpecResave == InitShown /\ [][NextResave]_vars

\* The history under its writers, taking turns, and clearHistory at any point.
InitHistory == InitWith(ConnIds)

NextHistory ==
  \/ /\ idCounter < MaxHistoryOps
     /\ \/ /\ idCounter % 3 = 0
           /\ \E id \in ConnIds : executeOnPoolResolves(id, 1)
        \/ /\ idCounter % 3 = 1
           /\ \E id \in ConnIds : executeOnPoolRejects(id, MsgSyntax)
        \/ /\ idCounter % 3 = 2
           /\ \E id \in ConnIds :
                RecordsInHistory(<<StatementText([type |-> "delete", rowIndex |-> 0])>>,
                                 id, 1, NoError)
  \/ clearHistory

SpecHistory == InitHistory /\ [][NextHistory]_vars

\* The text operations of the query command, each applied to one document.
InitText ==
  /\ connections = {}
  /\ activeQuery = NoActiveQuery
  /\ queryRunning = FALSE
  /\ queryHistory = <<>>
  /\ fired = <<>>
  /\ idCounter = 0
  /\ call = [c \in Calls |-> IdleCall]
  /\ currentContext = NoContext
  /\ cancelInFlight = [c \in Calls |-> 0]
  /\ cancelReturn = "none"
  /\ apply = IdleApply
  /\ save = IdleSave
  /\ editor \in {OpenDocument(text) : text \in Documents}
  /\ manager = IdleManager

NextText ==
  \/ Split
  \/ \E offset \in 0..Len(editor.text) : ResolveAtCursor(offset)
  \/ CheckLimit
  \/ Classify
  \/ PrepareSql

SpecText == InitText /\ [][NextText]_vars

\* convertValue applied to the value of one edited cell.
InitConvert ==
  /\ connections = {}
  /\ activeQuery = NoActiveQuery
  /\ queryRunning = FALSE
  /\ queryHistory = <<>>
  /\ fired = <<>>
  /\ idCounter = 0
  /\ call = [c \in Calls |-> IdleCall]
  /\ currentContext = NoContext
  /\ cancelInFlight = [c \in Calls |-> 0]
  /\ cancelReturn = "none"
  /\ apply = IdleApply
  /\ save = IdleSave
  /\ editor \in {[pc |-> "edited", value |-> value, dataType |-> dataType,
                   out |-> Undefined] : value \in CellValues, dataType \in DataTypes}
  /\ manager = IdleManager

NextConvert == Convert

SpecConvert == InitConvert /\ [][NextConvert]_vars

\* The commands on saved connections.
NextSettings ==
  \/ \E t \in Tasks, config \in FormConfigs : NewConnection(t, config)
  \/ \E t \in Tasks, config \in FormConfigs : editConnection(t, config)
  \/ \E t \in Tasks : SaveConfig(t)
  \/ \E t \in Tasks, id \in ConfigIds, savePassword \in BOOLEAN :
       \E password \in {NoPassword, EmptyPassword, PasswordOf(id)} :
         connectById(t, id, password, savePassword)
  \/ \E t \in Tasks, id \in ConfigIds : deleteConnectionConfig(t, id)
  \/ \E t \in Tasks : ForgetPassword(t)

SpecSettings == Init /\ [][NextSettings]_vars

\* The calls of connect, disconnect and disconnectAll, interleaved at their
\* awaits.
NextPools ==
  \/ \E id \in ConfigIds : connectBegin(id)
  \/ \E o \in Ops : TestResolves(o)
  \/ \E o \in Ops : TestRejects(o)
  \/ \E id \in ConfigIds : disconnectBegin(id)
  \/ \E o \in Ops : EndResolves(o)
  \/ \E o \in Ops : EndRejects(o)
  \/ disconnectAll

SpecPools == Init /\ [][NextPools]_vars

\* addLimitClause alone, applied to one document.
NextLimit == \E limit \in Limits : AddLimit(limit)

SpecLimit == InitText /\ [][NextLimit]_vars

\* splitSqlStatements alone, applied to one document.
NextSplit == Split

SpecSplit == InitText /\ [][NextSplit]_vars

\* findSqlAtCursor alone, at every cursor offset of one document.
NextCursor == \E offset \in 0..Len(editor.text) : ResolveAtCursor(offset)

SpecCursor == InitText /\ [][NextCursor]_vars

\* The query command alone, run on the selected text of one document.
NextCommandText == PrepareSql

SpecCommandText == InitText /\ [][NextCommandText]_vars

\* ------------------------------------------------------------------ C1
\* C1: every execute call that checked a client out releases it exactly once
\* on the way out, whichever way it leaves (the statement resolved, rejected,
\* was reclassified as a cancellation, or the pid query rejected): no release
\* before the finally block, one release in it, none after; and at the moment
\* the call returns or rejects, activeQuery is null and 'pgsql.queryRunning'
\* was last set to false.
C1_ReleasedOnceAndCleared ==
  [][\A c \in Calls :
       /\ InExecute(c) => call[c].releases = 0
       /\ (InExecute(c) /\ call'[c].pc = "settled") =>
            /\ call[c].client => call'[c].releases = 1
            /\ activeQuery' = NoActiveQuery
            /\ queryRunning' = FALSE
       /\ call[c].pc = "settled" =>
            (call'[c].pc = "settled" => call'[c].releases = call[c].releases)]_vars

\* Two calls have left execute with their client released, one after a failed
\* pid query or statement, the other reclassified as a cancellation.
C1_Witness ==
  \E c \in Calls, d \in Calls :
    /\ call[c].pc = "settled" /\ call[c].client /\ call[c].releases = 1
    /\ call[c].outcome = "rejected"
    /\ call[d].pc = "settled" /\ call[d].client /\ call[d].releases = 1
    /\ call[d].error = QueryCancelledByUser
    /\ activeQuery = NoActiveQuery /\ ~queryRunning

\* ------------------------------------------------------------------ C2
\* The cancellation signatures of the driver's error text.
CancelSignatures ==
  {<<"canceling", "statement", "due", "to", "user", "request">>, <<"57014">>}

FailedAsCancelled(msg) == \E sig \in CancelSignatures : Includes(msg, sig)

\* C2 as stated: an execute call that cancelCurrentQuery marked while its
\* statement was running finishes with a result whose error is 'Query cancelled
\* by user', without a history item, and with its client released.
C2_CancelledCallReportsCancellation ==
  \A c \in Calls :
    (call[c].pc = "settled" /\ call[c].cancelHit) =>
      /\ call[c].outcome = "resolved"
      /\ call[c].error = QueryCancelledByUser
      /\ call[c].recorded = <<>>
      /\ call[c].releases = 1

\* C2, amended: an execute call that cancelCurrentQuery marked while its
\* statement was running eventually finishes, with its client released; when
\* its statement fails with the driver's cancellation error the result's
\* error is 'Query cancelled by user' and no history item is recorded for it;
\* when its statement completes before the cancellation takes effect, the
\* call returns the statement's result without an error.
C2_CancelledCallFinishes ==
  /\ [](\A c \in Calls :
          (call[c].pc = "settled" /\ call[c].cancelHit) =>
            /\ call[c].releases = 1
            /\ FailedAsCancelled(call[c].caught) =>
                 /\ call[c].outcome = "resolved"
                 /\ call[c].error = QueryCancelledByUser
                 /\ call[c].rows = 0
                 /\ call[c].recorded = <<>>
            /\ call[c].caught = NoError =>
                 /\ call[c].outcome = "resolved"
                 /\ call[c].error = NoError)
  /\ \A c \in Calls :
       (call[c].pc = "running" /\ call[c].cancelHit) ~> (call[c].pc = "settled")

\* A cancelled call's statement failed with the driver's cancellation error;
\* the call reports the cancellation and has released its client.
C2_Witness ==
  \E c \in Calls :
    /\ call[c].pc = "settled" /\ call[c].cancelHit
    /\ call[c].caught = MsgSqlState
    /\ call[c].error = QueryCancelledByUser
    /\ call[c].releases = 1

\* ------------------------------------------------------------------ C3
\* C3: when the running statement fails while the ActiveQuery record is marked
\* cancelled, or with an error text that contains 'canceling statement due to
\* user request' or '57014', execute resolves, its result has the error 'Query
\* cancelled by user' and no rows, and the step appends nothing to the history
\* and fires no event.
C3_FailureReclassifiedAsCancellation ==
  [][\A c \in Calls :
       (/\ call[c].pc = "running"
        /\ call'[c].pc = "settled"
        /\ call'[c].caught # NoError
        /\ \/ (activeQuery # NoActiveQuery /\ activeQuery.cancelled)
           \/ FailedAsCancelled(call'[c].caught)) =>
         /\ call'[c].outcome = "resolved"
         /\ call'[c].thrown = NoError
         /\ call'[c].error = QueryCancelledByUser
         /\ call'[c].rows = 0 /\ call'[c].rowCount = 0
         /\ queryHistory' = queryHistory
         /\ fired' = fired]_vars

\* A statement failed with a syntax error while the record was marked
\* cancelled, and one failed with SQLSTATE 57014 without a cancel request.
C3_Witness ==
  \E c \in Calls :
    /\ call[c].pc = "settled" /\ call[c].stage = "running"
    /\ call[c].outcome = "resolved" /\ call[c].error = QueryCancelledByUser
    /\ \/ call[c].caught = MsgSyntax
       \/ call[c].caught = MsgSqlState /\ ~call[c].cancelHit

\* ------------------------------------------------------------------ C4
\* C4 as stated: every execute call that rejects (its failure was not
\* classified as a cancellation) has appended the history item carrying the
\* error it throws before the caller can observe the rejection.
C4_EveryRejectionRecorded ==
  \A c \in Calls :
    (call[c].pc = "settled" /\ call[c].outcome = "rejected") =>
      /\ Len(call[c].recorded) = 1
      /\ call[c].recorded[1].error = call[c].thrown

\* C4, amended: every execute call that resolved its connection and whose
\* failure is not classified as a cancellation rejects with the error it
\* caught, and at the moment the promise is rejected (the caller has not
\* resumed) the item carrying that error is the newest of the history and has
\* been fired.
C4_RejectionRecordedFirst ==
  [][\A c \in Calls :
       (InExecute(c) /\ call'[c].pc = "settled" /\ call'[c].outcome = "rejected") =>
         /\ call'[c].tried
         /\ call'[c].thrown = call'[c].caught
         /\ call'[c].thrown # NoError
         /\ Len(queryHistory') > 0
         /\ Head(queryHistory').error = call'[c].thrown
         /\ Head(queryHistory').sql = SqlOf(c)
         /\ Head(queryHistory').id = idCounter'
         /\ idCounter' = idCounter + 1
         /\ fired' = Append(fired, Head(queryHistory'))]_vars

\* An execute call rejected with a syntax error; its caller has not resumed
\* and the history's newest item carries the error.
C4_Witness ==
  \E c \in Calls :
    /\ call[c].pc = "settled" /\ call[c].outcome = "rejected"
    /\ call[c].thrown = MsgSyntax
    /\ Len(queryHistory) > 0 /\ Head(queryHistory).error = MsgSyntax

\* ------------------------------------------------------------------ C5
\* C5: with no active query, or with the active query already marked
\* cancelled, no step sends a cancel request, and cancelCurrentQuery returns
\* false and changes nothing else; cancelCurrentQuery never throws, also when
\* its cancel request fails.
C5_CancelIsIdempotent ==
  [][/\ (activeQuery = NoActiveQuery \/ activeQuery.cancelled) =>
          /\ \A p \in Calls : cancelInFlight'[p] <= cancelInFlight[p]
          /\ cancelCurrentQuery =>
               /\ cancelReturn' = "false"
               /\ UNCHANGED <<activeQuery, call, cancelInFlight, queryHistory>>
     /\ cancelReturn' \in {"none", "true", "false"}
     /\ \A p \in Calls : cancelInFlight'[p] <= 1]_vars

\* A second cancelCurrentQuery for the same execution returned false while the
\* request of the first was still awaited.
C5_Witness ==
  /\ activeQuery # NoActiveQuery /\ activeQuery.cancelled
  /\ cancelInFlight[activeQuery.owner] = 1
  /\ cancelReturn = "false"
  /\ \A c \in Calls \ {activeQuery.owner} : call[c].pc = "idle"

\* ------------------------------------------------------------------ C6
\* C6: at any moment at most one execute call is between its first await
\* (acquiring the client) and the end of its finally block.
C6_AtMostOneExecution == Cardinality({c \in Calls : InExecute(c)}) <= 1

\* ------------------------------------------------------------------ C7
\* C7: under execute, recordInHistory and clearHistory the history never holds
\* more than 100 items and is ordered newest first; every record puts the new
\* item at index 0 and keeps the others in their order, and a record made
\* while 100 items are held evicts exactly the oldest.
C7_HistoryCappedNewestFirst ==
  [][/\ Len(queryHistory') <= maxHistoryItems
     /\ \A i \in 1..(Len(queryHistory') - 1) :
          queryHistory'[i].id > queryHistory'[i + 1].id
     /\ idCounter' # idCounter =>
          /\ Len(queryHistory') > 0
          /\ Head(queryHistory').id = idCounter'
          /\ Len(queryHistory) < maxHistoryItems =>
               Tail(queryHistory') = queryHistory
          /\ Len(queryHistory) = maxHistoryItems =>
               Tail(queryHistory') = SubSeq(queryHistory, 1, maxHistoryItems - 1)]_vars

\* The history is full and its oldest items have been evicted.
C7_Witness ==
  /\ Len(queryHistory) = maxHistoryItems
  /\ idCounter = maxHistoryItems + 3
  /\ queryHistory[1].id = idCounter
  /\ queryHistory[maxHistoryItems].id = 4

\* ------------------------------------------------------------------ C8
\* The number of times item was fired.
TimesFired(item) == Cardinality({i \in 1..Len(fired) : fired[i] = item})

\* C8 as stated: every execute call that returned without an error or
\* rejected, and every save that executed at least one statement, has made
\* exactly one history item, fired exactly once.
C8_EveryOutcomeRecorded ==
  /\ \A c \in Calls :
       (/\ call[c].pc = "settled"
        /\ \/ call[c].outcome = "rejected"
           \/ call[c].outcome = "resolved" /\ call[c].error = NoError) =>
         /\ Len(call[c].recorded) = 1
         /\ TimesFired(call[c].recorded[1]) = 1
  /\ (save.pc = "done" /\ Len(apply.submitted) >= 1) =>
       /\ Len(save.recorded) = 1
       /\ TimesFired(save.recorded[1]) = 1

\* The step put exactly one item, for sql on connectionId, in front of the
\* history and fired exactly one event, with that item.
RecordedOne(sql, connectionId) ==
  /\ Len(queryHistory') > 0
  /\ Tail(queryHistory') = queryHistory
  /\ Head(queryHistory').sql = sql
  /\ Head(queryHistory').connectionId = connectionId
  /\ fired' = Append(fired, Head(queryHistory'))

\* C8, amended: every execute call that resolved its connection and then
\* completes successfully or fails with an error not classified as a
\* cancellation, and every save that executed at least one statement,
\* appends exactly one item to the history (here below its capacity) and
\* fires onQueryExecuted exactly once, with that item.
C8_OneItemOneEvent ==
  [][/\ \A c \in Calls :
          (/\ InExecute(c)
           /\ call'[c].pc = "settled"
           /\ \/ call'[c].outcome = "rejected"
              \/ call'[c].outcome = "resolved" /\ call'[c].error = NoError) =>
            RecordedOne(SqlOf(c), call[c].conn)
     /\ (save.pc = "applying" /\ save'.pc = "done" /\ Len(apply.submitted) >= 1) =>
          RecordedOne(apply.executedSql, currentContext.connectionId)
     /\ Len(fired') <= Len(fired) + 1]_vars

\* A save whose only statement failed is in the history, fired once, on top of
\* the item of the query whose result was edited.
C8_Witness ==
  /\ save.pc = "done"
  /\ Len(apply.submitted) = 1 /\ ~apply.success
  /\ Len(queryHistory) = 2
  /\ save.recorded = <<Head(queryHistory)>>
  /\ Head(queryHistory).error # NoError
  /\ TimesFired(Head(queryHistory)) = 1
  /\ TimesFired(queryHistory[2]) = 1

\* ------------------------------------------------------------------ C9
IsInsert(change) == change.type = "insert"

IsSubmittedInsert(change) == change.type = "insert" /\ change.wellFormed

\* C9: applyChanges submits the deletes first, by descending rowIndex, then
\* the updates, by ascending rowIndex, then the inserts, in the order in which
\* the input list supplied them.
C9_SubmissionOrder ==
  (apply.pc = "returned" /\ apply.batch) =>
    LET s == apply.submitted
    IN  /\ \A i \in 1..(Len(s) - 1) :
             /\ order(s[i].type) <= order(s[i + 1].type)
             /\ (s[i].type = "delete" /\ s[i + 1].type = "delete") =>
                  s[i].rowIndex >= s[i + 1].rowIndex
             /\ (s[i].type = "update" /\ s[i + 1].type = "update") =>
                  s[i].rowIndex <= s[i + 1].rowIndex
        /\ SelectSeq(s, IsInsert) = SelectSeq(apply.input, IsSubmittedInsert)

\* ------------------------------------------------------------------ C10
Occurrences(seq, x) == Cardinality({i \in 1..Len(seq) : seq[i] = x})

\* C10: an applyChanges call that got to its loop attempts every change of
\* the input list exactly once, whatever failed before, and returns an errors
\* list with exactly one entry per failed change, in the order of the
\* failures, each naming the change's type and rowIndex.
C10_FailureDoesNotAbortBatch ==
  (apply.pc = "returned" /\ apply.batch) =>
    /\ \A ch \in Changes :
         Occurrences(apply.attempted, ch) = Occurrences(apply.input, ch)
    /\ Len(apply.errors) = Len(apply.failed)
    /\ \A i \in 1..Len(apply.failed) :
         /\ apply.errors[i][1] = apply.failed[i].type
         /\ apply.errors[i][3] = ToString(apply.failed[i].rowIndex)
    /\ apply.success <=> apply.failed = <<>>

\* The statement of the first change failed on the server; the second change
\* was still submitted and affected a row.
C10_Witness ==
  /\ apply.pc = "returned" /\ apply.batch
  /\ Len(apply.input) = 2
  /\ Len(apply.submitted) = 2
  /\ apply.failed = <<apply.submitted[1]>>
  /\ Len(apply.errors) = 1
  /\ apply.affectedRows = 1

\* ------------------------------------------------------------------ C11
RECURSIVE SumSeq(_)
SumSeq(seq) == IF seq = <<>> THEN 0 ELSE Head(seq) + SumSeq(Tail(seq))

\* C11: in the result of applyChanges, affectedRows is the sum of the row
\* counts reported by the statements that resolved, one per change that did
\* not fail, and success is true exactly when the errors list is empty.
C11_AffectedRowsAndSuccess ==
  apply.pc = "returned" =>
    /\ apply.affectedRows = SumSeq(apply.reported)
    /\ Len(apply.reported) + Len(apply.failed) = Len(apply.attempted)
    /\ apply.success <=> apply.errors = <<>>

\* Of two changes one failed on the server and one affected a row.
C11_Witness ==
  /\ apply.pc = "returned" /\ apply.batch
  /\ Len(apply.submitted) = 2 /\ Len(apply.failed) = 1
  /\ apply.reported = <<1>>
  /\ apply.affectedRows = 1
  /\ ~apply.success /\ Len(apply.errors) = 1

\* ------------------------------------------------------------------ C12
\* The result of a call that did not get past its precondition checks.
ConfigurationFailure(result) ==
  /\ result.pc = "returned"
  /\ ~result.success
  /\ result.affectedRows = 0
  /\ Len(result.errors) = 1
  /\ result.errors[1] \in {MsgNoConnection, MsgNoPrimaryKey}
  /\ result.executedSql = <<>>
  /\ result.submitted = <<>> /\ result.attempted = <<>>

\* C12: an applyChanges call with no primary key columns, or with a
\* connection id that names no open connection, returns at once with success
\* false, affectedRows 0, one configuration error and an empty executedSql,
\* having submitted nothing; a save that ends on such a result, or before it
\* calls applyChanges, leaves the query history and its event alone.
C12_PreconditionFailure ==
  [][/\ (apply.pc = "idle" /\ apply'.pc # "idle" /\ save'.pc = "idle") =>
          \A hasPrimaryKey \in BOOLEAN, id \in ConnIds :
            (/\ ~hasPrimaryKey \/ id \notin connections
             /\ applyChanges(apply'.input, hasPrimaryKey, id)) =>
              ConfigurationFailure(apply')
     /\ (save.pc = "applying" /\ save'.pc = "done" /\ ~apply.batch) =>
          /\ ConfigurationFailure(apply)
          /\ UNCHANGED <<queryHistory, fired, idCounter>>
     /\ (save.pc \in {"idle", "prompt"} /\ save'.pc = "applying" /\ ~apply'.batch) =>
          ConfigurationFailure(apply')
     /\ (save.pc \in {"idle", "prompt"} /\ save'.pc = "done") =>
          UNCHANGED <<queryHistory, fired, idCounter, apply>>]_vars

\* A save on a result whose connection was closed ended with the
\* configuration error; the history still holds the query's item only.
C12_Witness ==
  /\ save.pc = "done"
  /\ ConfigurationFailure(apply)
  /\ apply.errors = <<MsgNoConnection>>
  /\ Len(apply.input) > 0
  /\ Len(queryHistory) = 1 /\ Len(fired) = 1

HasStatement(change) == change.wellFormed

C14_ChangeConsumedOnce ==
  save.pc = "applying" =>
    \A i \in 1..Len(apply.input) : apply.input[i] \notin save.consumed

\* The state the panel is in when saving starts over: reached by a command.
InitShownReached ==
  /\ connections = ConnIds
  /\ queryHistory = <<ShownItem>> /\ fired = <<ShownItem>> /\ idCounter = 1
  /\ call = [c \in Calls |-> IF c = 1 THEN DoneCall ELSE IdleCall]
  /\ currentContext = [connectionId |-> "conn1", originalSql |-> FALSE,
                       tableName |-> TRUE, primaryKeyColumns |-> TRUE]
  /\ activeQuery = NoActiveQuery /\ ~queryRunning
  /\ cancelInFlight = [c \in Calls |-> 0] /\ cancelReturn = "none"
  /\ apply = IdleApply /\ save = IdleSave


\* ---------------------------------------------------------------- C15
\* The semicolons of a text that lie outside single-quoted strings,
\* double-quoted identifiers, line comments and block comments, read as SQL
\* reads them: a string ends at its quote unless the quote is doubled, a line
\* comment at the newline, a block comment at the first */ after its /*.
\* One character read in a context: the index read next, the context there
\* and the semicolons found outside strings and comments so far.
normalStep(text, i, s) ==
  LET char == text[i]
      nextChar == NextChar(text, i)
      to(next, context) == [i |-> next, s |-> [s EXCEPT !.context = context]]
  IN  CASE s.context = "normal" ->
             IF char = "-" /\ nextChar = "-" THEN to(i + 2, "line")
             ELSE IF char = "/" /\ nextChar = "*" THEN to(i + 2, "block")
             ELSE IF char = "'" THEN to(i + 1, "single")
             ELSE IF char = "\"" THEN to(i + 1, "double")
             ELSE IF char = ";"
             THEN [i |-> i + 1, s |-> [s EXCEPT !.found = @ \cup {i}]]
             ELSE to(i + 1, "normal")
        [] s.context = "single" ->
             IF char = "'" /\ nextChar = "'" THEN to(i + 2, "single")
             ELSE IF char = "'" THEN to(i + 1, "normal")
             ELSE to(i + 1, "single")
        [] s.context = "double" ->
             IF char = "\"" /\ nextChar = "\"" THEN to(i + 2, "double")
             ELSE IF char = "\"" THEN to(i + 1, "normal")
             ELSE to(i + 1, "double")
        [] s.context = "line" ->
             IF char = "\n" THEN to(i + 1, "normal") ELSE to(i + 1, "line")
        [] s.context = "block" ->
             IF char = "*" /\ nextChar = "/" THEN to(i + 2, "normal")
             ELSE to(i + 1, "block")

\* The characters at the indexes from..to read in order; an index that was
\* read together with the one before it is not read again.
RECURSIVE normalPasses(_, _, _, _)
normalPasses(text, from, to, pass) ==
  IF from = to
  THEN IF pass.i = from THEN normalStep(text, from, pass.s) ELSE pass
  ELSE LET middle == (from + to) \div 2
           first == normalPasses(text, from, middle, pass)
       IN  IF first.i > to THEN first
           ELSE normalPasses(text, middle + 1, to, first)

NormalSemicolons(text, i, context) ==
  IF i > Len(text) THEN {}
  ELSE normalPasses(text, i, Len(text),
                    [i |-> i, s |-> [context |-> context, found |-> {}]]).s.found

\* The pieces of the text from index from on, cut at the given indexes.
RECURSIVE PiecesFrom(_, _, _)
PiecesFrom(text, from, cuts) ==
  IF \A c \in cuts : c < from
  THEN <<SubSeq(text, from, Len(text))>>
  ELSE LET cut == CHOOSE c \in cuts : c >= from /\ \A d \in cuts : d >= from => c <= d
       IN  <<SubSeq(text, from, cut - 1)>> \o PiecesFrom(text, cut + 1, cuts)

NotBlank(piece) == trim(piece) # <<>>

\* C15: splitSqlStatements splits a text at exactly the semicolons outside
\* strings, quoted identifiers, line comments and block comments: what it
\* returns are the pieces between those semicolons (the blank ones left out),
\* so no semicolon inside a string or comment is a boundary and no statement
\* holds a semicolon outside them.
C15_SplitsAtNormalSemicolons ==
  editor.pc = "split" =>
    editor.out = SelectSeq(PiecesFrom(editor.text, 1,
                                      NormalSemicolons(editor.text, 1, "normal")),
                           NotBlank)

\* ---------------------------------------------------------------- C16
\* C16: a cursor inside the trimmed text of the k-th statement of the splitter
\* makes findSqlAtCursor return that statement, trimmed, whatever whitespace
\* and empty statements come before it.
C16_CursorResolvesToItsStatement ==
  editor.pc = "resolved" =>
    \A k \in 1..Len(splitScan(editor.text).statements) :
      LET statement == splitScan(editor.text).statements[k]
          first == splitScan(editor.text).starts[k]
                     + Len(statement) - Len(trimStart(statement))
          last == first + Len(trim(statement))
      IN  (first <= editor.offset /\ editor.offset <= last)
            => editor.out = trim(statement)

\* ---------------------------------------------------------------- C17
\* The text without trailing whitespace and one trailing semicolon.
WithoutTrailingSemicolon(sql) ==
  IF endsWith(trimEnd(sql), <<";">>)
  THEN SubSeq(trimEnd(sql), 1, Len(trimEnd(sql)) - 1)
  ELSE trimEnd(sql)

\* The text ends with LIMIT n, LIMIT n OFFSET n or FETCH FIRST|NEXT n ROW|ROWS
\* ONLY, trailing whitespace and one trailing semicolon apart.
EndsWithRowLimit(sql) ==
  \E i \in 1..Len(WithoutTrailingSemicolon(sql)) :
    \/ LimitOffsetAt(WithoutTrailingSemicolon(sql), i)
    \/ FetchAt(WithoutTrailingSemicolon(sql), i)

\* C17: hasLimitClause(s) is true exactly when s, after removing trailing
\* whitespace and one optional trailing semicolon, ends with a LIMIT or FETCH
\* clause, whatever the case of its letters.
C17_LimitClauseDetected ==
  editor.pc = "limit-checked" => (editor.out <=> EndsWithRowLimit(editor.text))

\* ---------------------------------------------------------------- C18
\* The statement with ' LIMIT 100' appended, before its trailing semicolon
\* when the trimmed statement ends with one.
WithDefaultLimit(sql) ==
  IF endsWith(trim(sql), <<";">>)
  THEN trimEnd(SubSeq(trim(sql), 1, Len(trim(sql)) - 1))
         \o <<" ", "L", "I", "M", "I", "T", " ", "1", "0", "0", ";">>
  ELSE trim(sql) \o <<" ", "L", "I", "M", "I", "T", " ", "1", "0", "0">>

\* C18: the text the command hands to the executor is the statement itself
\* when the statement is not a SELECT/WITH query or already ends with a row
\* limit, and the statement with ' LIMIT 100' appended otherwise.
C18_SubmittedTextLimited ==
  editor.pc = "prepared" =>
    editor.out.submitted =
      IF ~isSelectQuery(editor.out.statement)
           \/ EndsWithRowLimit(editor.out.statement)
      THEN editor.out.statement
      ELSE WithDefaultLimit(editor.out.statement)

\* ---------------------------------------------------------------- C19
\* The text begins with the word, and the word ends there.
StartsWithWord(text, word) ==
  /\ startsWith(text, word)
  /\ Len(text) = Len(word) \/ text[Len(word) + 1] \notin WordChars

\* C19: a statement is classified Read exactly when, whitespace normalized
\* and case ignored, it starts with the word SELECT or WITH, and Write when it
\* starts with one of the modification keywords.
C19_ClassifiedByFirstWord ==
  editor.pc = "classified" =>
    /\ editor.out.read <=>
         \/ StartsWithWord(normalizedSql(editor.text), <<"S", "E", "L", "E", "C", "T">>)
         \/ StartsWithWord(normalizedSql(editor.text), <<"W", "I", "T", "H">>)
    /\ (\E k \in 1..Len(modificationKeywords) :
          StartsWithWord(normalizedSql(editor.text), modificationKeywords[k]))
         => editor.out.write

\* ---------------------------------------------------------------- C20
\* C20: execute is called for a modification query only from the confirmation
\* dialog, when it returned 'Execute'; when the dialog is dismissed the command
\* returns without calling execute, the history and the active query stay as
\* they were, and the returned command does nothing any more.
C20_WriteNeedsConfirmation ==
  [][\A c \in Calls :
       /\ (call'[c].kind = "write" /\ call[c].pc \in {"idle", "confirm", "done"}
             /\ call'[c].pc \in {"connect", "settled"})
            => (call[c].pc = "confirm" /\ call[c].kind = "write")
       /\ (call[c].pc = "confirm" /\ call'[c].pc \notin {"connect", "settled", "confirm"})
            => /\ call'[c] = DoneCall
               /\ queryHistory' = queryHistory
               /\ fired' = fired
               /\ idCounter' = idCounter
               /\ activeQuery' = activeQuery
       /\ call[c].pc = "done" => call'[c] = call[c]]_vars

\* A modification query was confirmed and its statement is running.
C20_Witness ==
  \E c \in Calls : call[c].kind = "write" /\ call[c].via = "command"
                     /\ call[c].pc = "running"

\* ---------------------------------------------------------------- C21
\* C21: when the text of the command, its comments stripped, holds more than
\* one statement, the command takes the first of them, trimmed, as its
\* statement and hands to the executor that statement alone (as it is or with
\* the automatic LIMIT): a single statement, none of the later ones.
C21_OnlyFirstStatementSubmitted ==
  (editor.pc \in {"prepared", "nothing"}
     /\ Len(splitSqlStatements(trim(stripSqlComments(editor.text)))) > 1) =>
    LET first == trim(splitSqlStatements(trim(stripSqlComments(editor.text)))[1])
    IN  /\ editor.pc = "prepared"
        /\ editor.out.statement = first
        /\ editor.out.submitted \in {first, WithDefaultLimit(first)}
        /\ splitSqlStatements(editor.out.submitted) = <<editor.out.submitted>>

\* A text of two statements that differ was prepared.
C21_Witness ==
  /\ editor.pc = "prepared"
  /\ Len(splitSqlStatements(trim(stripSqlComments(editor.text)))) > 1
  /\ trim(splitSqlStatements(trim(stripSqlComments(editor.text)))[2])
       # editor.out.statement

\* ---------------------------------------------------------------- C22
\* C22: no config in the settings list carries a password, and a password in
\* the secret storage lies under the key of the connection it was given for.
C22_NoPasswordInSettings ==
  /\ \A id \in ConfigIds :
       manager.settings[id] # NoConfig =>
         /\ manager.settings[id].id = id
         /\ manager.settings[id].password = NoPassword
  /\ \A id \in ConfigIds :
       manager.secrets[id] \in {NoPassword, EmptyPassword, PasswordOf(id)}

\* Both connections are saved with their passwords stored, one of them by a
\* command that was given the password in its config.
C22_Witness ==
  /\ \A id \in ConfigIds :
       manager.settings[id] # NoConfig /\ manager.secrets[id] = PasswordOf(id)
  /\ \E t \in Tasks : manager.tasks[t].pc = "save"
                        /\ HasPassword(manager.tasks[t].config.password)

\* ---------------------------------------------------------------- C23
\* The spellings of 'true' and 'false' among the cell texts.
TrueSpellings == {<<"t", "r", "u", "e">>, <<"T", "R", "U", "E">>, <<"T", "r", "u", "e">>}
FalseSpellings == {<<"f", "a", "l", "s", "e">>, <<"F", "A", "L", "S", "E">>}

\* C23: convertValue gives null for the empty string, null and undefined
\* whatever the column; for a boolean column it gives the boolean for a text
\* that spells true or false in any case, and any other value as it is.
C23_ConvertValue ==
  editor.pc = "converted" =>
    /\ editor.value \in {Null, Undefined, StringValue(<<>>)} => editor.out = Null
    /\ (editor.dataType = "boolean"
          /\ editor.value \notin {Null, Undefined, StringValue(<<>>)}) =>
         editor.out =
           IF editor.value.type = "string" /\ editor.value.v \in TrueSpellings
           THEN BooleanValue(TRUE)
           ELSE IF editor.value.type = "string" /\ editor.value.v \in FalseSpellings
           THEN BooleanValue(FALSE)
           ELSE editor.value

\* 'TRUE' in a boolean column was converted.
C23_Witness ==
  /\ editor.pc = "converted"
  /\ editor.dataType = "boolean"
  /\ editor.value = StringValue(<<"T", "R", "U", "E">>)
  /\ editor.out = BooleanValue(TRUE)

\* ---------------------------------------------------------------- C24
\* The statements of the call that were submitted and have neither resolved
\* nor been rejected.
InFlight ==
  Len(apply.submitted) - Len(apply.reported)
    - Len(SelectSeq(apply.failed, HasStatement))

\* C24: at most one statement of an applyChanges call is in flight, and the
\* statement of the next change is submitted only when none is.
C24_OneStatementInFlight ==
  [][/\ InFlight \in {0, 1}
     /\ Len(apply'.submitted) > Len(apply.submitted) /\ apply.pc # "idle"
          => InFlight = 0]_vars

\* The statement of the second change is in flight, the first has finished.
C24_Witness ==
  /\ apply.pc = "query"
  /\ Len(apply.submitted) = 2
  /\ InFlight = 1

\* ---------------------------------------------------------------- C25
\* The cursor is at the offset of a semicolon that ends a statement of the
\* splitter and separates it from what follows.
OnSeparatingSemicolon ==
  \E k \in 1..Len(splitScan(editor.text).statements) :
    /\ editor.offset = splitScan(editor.text).starts[k]
                         + Len(splitScan(editor.text).statements[k])
    /\ editor.offset < Len(editor.text)

\* C25 as stated: with the cursor on a separating semicolon findSqlAtCursor
\* returns the entire text, trimmed, not a single statement.
C25_BoundaryGivesWholeText ==
  (editor.pc = "resolved" /\ OnSeparatingSemicolon) =>
    editor.out = trim(editor.text)

\* C25: findSqlAtCursor always returns, the trimmed text of a statement or
\* the entire text trimmed; it is the entire text when the text holds no
\* statement, and the first statement when the cursor is at the offset of
\* the semicolon that ends it and nothing but that statement comes before.
C25_BoundaryGivesStatementBefore ==
  editor.pc = "resolved" =>
    /\ \/ editor.out = trim(editor.text)
       \/ \E k \in 1..Len(splitScan(editor.text).statements) :
            editor.out = trim(splitScan(editor.text).statements[k])
    /\ splitScan(editor.text).statements = <<>> => editor.out = trim(editor.text)
    /\ (/\ splitScan(editor.text).statements # <<>>
        /\ splitScan(editor.text).starts[1] = 0
        /\ editor.offset = Len(splitScan(editor.text).statements[1]))
         => editor.out = trim(splitScan(editor.text).statements[1])

\* The cursor is on the semicolon after the first statement, more text
\* follows, and the first statement was returned.
C25_Witness ==
  /\ editor.pc = "resolved"
  /\ splitScan(editor.text).statements # <<>>
  /\ splitScan(editor.text).starts[1] = 0
  /\ editor.offset = Len(splitScan(editor.text).statements[1])
  /\ editor.offset + 1 < Len(editor.text)
  /\ editor.text[editor.offset + 1] = ";"
  /\ editor.out # trim(editor.text)

\* ---------------------------------------------------------------- C26
\* The segments of the text: what lies between the semicolons at which the
\* splitter ends a statement, before the first and after the last of them.
Segments(text) == PiecesFrom(text, 1, splitScan(text).boundaries)

\* C26: splitSqlStatements returns the segments between its boundary
\* semicolons in order, leaving out each empty or whitespace-only one; the
\* text after the last boundary is returned exactly when it holds a
\* character that is not whitespace, and there are as many statements as
\* segments that are not blank.
C26_BlankSegmentsDropped ==
  editor.pc = "split" =>
    /\ editor.out = SelectSeq(Segments(editor.text), NotBlank)
    /\ Len(editor.out) = Len(SelectSeq(Segments(editor.text), NotBlank))
    /\ \A k \in 1..Len(editor.out) : NotBlank(editor.out[k])
    /\ LET last == Segments(editor.text)[Len(Segments(editor.text))]
       IN  NotBlank(last) <=>
             /\ editor.out # <<>>
             /\ editor.out[Len(editor.out)] = last

\* A text split at two semicolons or more, with a blank segment between two
\* of them and a blank tail, and one statement returned.
C26_Witness ==
  /\ editor.pc = "split"
  /\ Cardinality(splitScan(editor.text).boundaries) >= 2
  /\ Len(Segments(editor.text)) > Len(editor.out)
  /\ ~NotBlank(Segments(editor.text)[Len(Segments(editor.text))])
  /\ Len(editor.out) = 1

\* ---------------------------------------------------------------- C27
\* The indexes of the text that stripSqlComments removes as comment.
RemovedAsComment(text) ==
  (1..Len(text)) \ stripLoop(text, 1, StripStart).kept

\* The semicolons that stripSqlComments keeps outside strings and comments.
KeptSemicolons(text) ==
  {i \in stripLoop(text, 1, StripStart).normal : text[i] = ";"}

\* C27: splitSqlStatements and stripSqlComments classify the semicolons of a
\* text alike: a semicolon at which the splitter ends a statement is never in
\* what the stripper removes as comment, and a semicolon the stripper keeps
\* outside strings and comments is one at which the splitter ends a statement.
C27_SplitterAndStripperAgree ==
  editor.pc = "split" =>
    /\ splitScan(editor.text).boundaries \cap RemovedAsComment(editor.text) = {}
    /\ KeptSemicolons(editor.text) = splitScan(editor.text).boundaries

\* ---------------------------------------------------------------- C30
\* C30: hasLimitClause holds of what addLimitClause returns, whether or not
\* the text ends with a semicolon, so a text that was given a limit is not
\* given a second one.
C30_LimitAddedIsSeen ==
  editor.pc = "limited" => hasLimitClause(editor.out)

\* ---------------------------------------------------------------- C28
\* C28: while an execute call awaits its statement the ActiveQuery record is
\* set and is that call's own (its client and pid), so isQueryRunning() is
\* true and cancelCurrentQuery marks that call; and a statement whose failure
\* carries no cancellation signature is reported as cancelled only when the
\* call's own execution was cancelled.
C28_RecordIsOfTheAwaitingCall ==
  [][/\ \A c \in Calls :
          call[c].pc = "running" =>
            activeQuery # NoActiveQuery /\ activeQuery.owner = c
     /\ \A c \in Calls :
          (/\ call[c].pc = "running"
           /\ call'[c].pc = "settled"
           /\ call'[c].caught # NoError
           /\ ~FailedAsCancelled(call'[c].caught)
           /\ call'[c].error = QueryCancelledByUser) => call[c].cancelHit]_vars

\* ---------------------------------------------------------------- C29
\* The pools of an id whose end() has not resolved.
UnendedPools(id) ==
  {p \in 1..Len(manager.pools) :
     manager.pools[p].id = id /\ ~manager.pools[p].ended}

\* The pools that a suspended connect is testing.
PoolsUnderTest ==
  {manager.ops[o].pool : o \in {q \in Ops : manager.ops[q].pc = "testing"}}

\* C29: under every interleaving of connect, disconnect and disconnectAll,
\* failing connects included, each connection id has at most one pool that
\* has not ended, and such a pool is the one registered under the id in the
\* connections map (or the one a connect still suspended is testing before
\* it registers it).
C29_OneUnendedPoolPerId ==
  \A id \in ConfigIds :
    /\ Cardinality(UnendedPools(id)) <= 1
    /\ \A p \in UnendedPools(id) :
         manager.registry[id] = p \/ p \in PoolsUnderTest
====
